---- MODULE Spec2Model ----
(***************************************************************************)
(* Van monitor firmware (src/main.py): the cooperative main loop, the      *)
(* sensor refresh (update_sensors), the engine-off shutdown timer, the     *)
(* shutdown sequence (handle_shutdown_sequence), the Wi-Fi retry and the   *)
(* logging / cleanup gates.                                                *)
(*                                                                         *)
(* Time is the MicroPython millisecond tick counter.  time.ticks_ms() has  *)
(* an arbitrary reference point and wraps at TICKS_PERIOD; ticks_diff is   *)
(* the signed difference over that modulus.  One step of the model is one  *)
(* iteration of the main loop, i.e. one call of update_sensors, followed   *)
(* by the time that passes until the next call.                            *)
(***************************************************************************)
EXTENDS Integers, Naturals, Sequences, FiniteSets, TLC

VARIABLES
    now,                \* value time.ticks_ms() returns at the next call of update_sensors
    pc,                 \* "run" (main loop), "asleep" (deepsleep entered), "crashed"
    sensor_data,        \* the shared snapshot (src/main.py:62-68)
    engine_off_time,    \* src/main.py:49
    last_wifi_attempt,  \* src/main.py:45
    last_log_time,      \* src/main.py:54
    last_cleanup_time,  \* src/main.py:58
    is_shutting_down,   \* src/main.py:51
    calls,              \* what the last loop iteration did (collaborators invoked)
    hist,               \* observation only: off_at = tick of the latest present->absent
                        \* sample while the engine stays absent; absent_ms = time since
                        \* then; discarded = a running timer was interrupted by a present
                        \* sample; wifi_gap = time since the last Wi-Fi attempt of a
                        \* refresh; shutdowns = shutdown sequences started since boot
    steps,              \* loop iterations since boot (bounds a wake cycle)
    gps_poll,           \* one call of read_gps taken line by line (idle in the main-loop model)
    sd_card,            \* the files on the SD card (idle in the main-loop model)
    probe               \* a function applied on its own: its arguments and result

vars == <<now, pc, sensor_data, engine_off_time, last_wifi_attempt, last_log_time,
          last_cleanup_time, is_shutting_down, calls, hist, steps,
          gps_poll, sd_card, probe>>

\* the main loop's variables other than the clock, and the unit-level ones
loop_vars == <<pc, sensor_data, engine_off_time, last_wifi_attempt, last_log_time,
               last_cleanup_time, is_shutting_down, calls, hist, steps>>
unit_vars == <<gps_poll, sd_card, probe>>

GpsIdle == [pc |-> "idle"]
SdIdle == [pc |-> "idle"]
ProbeIdle == [fn |-> "none"]
UnitsIdle == gps_poll = GpsIdle /\ sd_card = SdIdle /\ probe = ProbeIdle

-----------------------------------------------------------------------------
(* Program constants *)

WIFI_RETRY_INTERVAL == 30000
SHUTDOWN_DELAY == 30000
LOG_INTERVAL == 60000
CLEANUP_INTERVAL == 86400000
SENSOR_UPDATE_INTERVAL == 5000
DISPLAY_UPDATE_INTERVAL == 250
HOME_RADIUS_FT == 2000
\* check_wifi: "timeout = 10" one-second polls
wifi_timeout == 10
\* Python's None, for the timestamps, the battery and the coordinates
None == -1

\* Period of the tick counter (MicroPython: 2^30) and half of it
TICKS_PERIOD == 2^30
TICKS_HALF == TICKS_PERIOD \div 2

\* Home position, in feet of arc north / east of the origin
HOME_LAT == 40000
HOME_LON == 70000

-----------------------------------------------------------------------------
(* Bounds of the model *)

\* loop iterations in one wake cycle
MaxSteps == 4

\* the longest stretch between two calls of update_sensors that the sensor gate
\* still sees as elapsed time (just under half the period)
LongDelta == TICKS_HALF - DISPLAY_UPDATE_INTERVAL

\* time from one call of update_sensors to the next: the pause of the loop,
\* exactly the shutdown delay (= the Wi-Fi retry interval), a long stretch
Deltas == {DISPLAY_UPDATE_INTERVAL, SHUTDOWN_DELAY, LongDelta}

\* tick counter at boot (its reference point is arbitrary): the first value at
\* which the sensor refresh is due, and a value from which the counter wraps to
\* exactly 0 after LongDelta and one shutdown delay
BootTicks == {SENSOR_UPDATE_INTERVAL, TICKS_PERIOD - LongDelta - SHUTDOWN_DELAY}

-----------------------------------------------------------------------------
(* Helpers *)

Abs(x) == IF x < 0 THEN -x ELSE x
Min(a, b) == IF a < b THEN a ELSE b

\* Python truthiness of a number-or-None: None and 0 are false
Truthy(x) == x # None /\ x # 0

\* time.ticks_diff(a, b): signed difference over the counter's modulus
ticks_diff(a, b) == ((a - b + TICKS_HALF) % TICKS_PERIOD) - TICKS_HALF

\* the counter d milliseconds after t
ticks_add(t, d) == (t + d) % TICKS_PERIOD

-----------------------------------------------------------------------------
(* GPS fixes and the proximity test *)

\* read_gps's initial dictionary: no position keys (dict.get gives None)
NoFix == [gps_fix_valid |-> FALSE, latitude |-> None, longitude |-> None, satellites |-> 0]

Fix(lat, lon, sats) ==
    [gps_fix_valid |-> TRUE, latitude |-> lat, longitude |-> lon, satellites |-> sats]

\* what one poll of the receiver can return: no fix, a fix exactly on the home
\* radius, a fix one foot beyond it
GpsReads == {NoFix,
             Fix(HOME_LAT + HOME_RADIUS_FT, HOME_LON, 7),
             Fix(HOME_LAT + HOME_RADIUS_FT + 1, HOME_LON, 7)}

\* great-circle distance in feet; the modelled positions lie on the home
\* meridian, where it is the difference of the arcs
calculate_distance_feet(lat1, lon1, lat2, lon2) == Abs(lat2 - lat1) + Abs(lon2 - lon1)

\* is_close_to_home with the home position the module imported from
\* local_secrets; "not x" is Python's truthiness of dict.get's answer
is_close_to_home_of(gps_data, home_lat, home_lon) ==
    IF ~gps_data.gps_fix_valid \/ ~Truthy(gps_data.latitude) \/ ~Truthy(gps_data.longitude)
    THEN FALSE
    ELSE calculate_distance_feet(gps_data.latitude, gps_data.longitude, home_lat, home_lon)
            <= HOME_RADIUS_FT

is_close_to_home(gps_data) == is_close_to_home_of(gps_data, HOME_LAT, HOME_LON)

\* "is_close_to_home(gps) if gps.get('gps_fix_valid') else False"
close_to_home(gps_data) == IF gps_data.gps_fix_valid THEN is_close_to_home(gps_data) ELSE FALSE

-----------------------------------------------------------------------------
(* Wi-Fi association and upload *)

\* The station as check_wifi finds it: fails = how many times isconnected()
\* answers False before it answers True; raises = the driver raises
WifiEnv == {[fails |-> n, raises |-> FALSE] : n \in {0, 1, wifi_timeout, wifi_timeout + 1}}
           \cup {[fails |-> 1, raises |-> TRUE]}

\* the station as the quick check of a refresh finds it: link up, link down
LinkEnv == {[fails |-> n, raises |-> FALSE] : n \in {0, 1}}

\* what read_battery_status returns: a percentage
BatteryReads == {75}

\* the polling loop: "while timeout > 0: if sta.isconnected(): return True; ..."
RECURSIVE wifi_poll(_, _)
wifi_poll(timeout, fails) ==
    IF timeout > 0
    THEN IF fails = 0 THEN TRUE ELSE wifi_poll(timeout - 1, fails - 1)
    ELSE FALSE

\* the body of check_wifi's try block
check_wifi_try(w) ==
    IF w.raises THEN [ret |-> FALSE, connect |-> FALSE, raised |-> TRUE]
    ELSE IF w.fails = 0 THEN [ret |-> TRUE, connect |-> FALSE, raised |-> FALSE]
    ELSE [ret |-> wifi_poll(wifi_timeout, w.fails - 1), connect |-> TRUE, raised |-> FALSE]

\* check_wifi: "except: pass" then "return False"
check_wifi(w) ==
    LET r == check_wifi_try(w)
    IN  IF r.raised THEN [ret |-> FALSE, connect |-> r.connect, raised |-> FALSE] ELSE r

\* the quick check of a refresh that makes no attempt:
\* "sta.isconnected() if sta.active() else False"
link_up(w) == ~w.raises /\ w.fails = 0

\* The FTP server as upload_files_ftp finds it
FtpEnv == {"login_ok", "login_refused", "error"}

\* the server's reply to PASS
PassReply(u) ==
    CASE u = "login_ok" -> <<"2", "3", "0", " ", "O", "K">>
      [] u = "login_refused" -> <<"5", "3", "0", " ", "N", "o">>
      [] OTHER -> <<>>

\* Python's "sub in s" for strings
contains(s, sub) ==
    \E i \in 1..(Len(s) - Len(sub) + 1) : SubSeq(s, i, i + Len(sub) - 1) = sub

\* 'if "230" in response'
login_successful(response) == contains(response, <<"2", "3", "0">>)

\* the body of upload_files_ftp's try block: CWD and the file listing follow
\* a successful login; it returns True after sock.close(), whatever the reply
\* to PASS was
upload_files_ftp_try(u) ==
    IF u = "error" THEN [ret |-> FALSE, raised |-> TRUE, cwd |-> FALSE]
    ELSE [ret |-> TRUE, raised |-> FALSE, cwd |-> login_successful(PassReply(u))]

\* variant: upload_files_ftp without its except clause
upload_files_ftp_uncaught(u) == upload_files_ftp_try(u)

\* upload_files_ftp: "except Exception: return False"
upload_files_ftp(u) ==
    LET r == upload_files_ftp_try(u)
    IN  IF r.raised THEN [ret |-> FALSE, raised |-> FALSE, cwd |-> FALSE] ELSE r

-----------------------------------------------------------------------------
(* The interval gates *)

\* variant: the sensor gate compares against the display interval
sensor_due_display_interval(t) ==
    ~(ticks_diff(t, sensor_data.last_update) < DISPLAY_UPDATE_INTERVAL)

\* update_sensors: "if ticks_diff(current_time, last_update) < SENSOR_UPDATE_INTERVAL: return"
sensor_due(t) == ~(ticks_diff(t, sensor_data.last_update) < SENSOR_UPDATE_INTERVAL)

\* variant: a present sample pauses the timer instead of discarding it
next_engine_off_time_paused(prev, eng, t) ==
    IF prev /\ ~eng THEN t ELSE engine_off_time

\* update_sensors: engine_off_time after the engine sample
\*   engine on -> None; just turned off -> current_time; otherwise kept
next_engine_off_time(prev, eng, t) ==
    IF eng THEN None
    ELSE IF prev /\ ~eng THEN t
    ELSE engine_off_time

\* variant: the shutdown starts as soon as the delay is reached
shutdown_due_at_delay(prev, eng, t) ==
    /\ ~eng
    /\ ~(prev /\ ~eng)
    /\ Truthy(engine_off_time)
    /\ ticks_diff(t, engine_off_time) >= SHUTDOWN_DELAY

\* update_sensors: the elif that starts the shutdown sequence
shutdown_due(prev, eng, t) ==
    /\ ~eng
    /\ ~(prev /\ ~eng)
    /\ Truthy(engine_off_time)
    /\ ticks_diff(t, engine_off_time) > SHUTDOWN_DELAY

\* variant: the retry is allowed as soon as the interval is reached
wifi_due_at_interval(close, t) ==
    close /\ ticks_diff(t, last_wifi_attempt) >= WIFI_RETRY_INTERVAL

\* update_sensors: "if close_to_home and ticks_diff(current_time, last_wifi_attempt) > WIFI_RETRY_INTERVAL"
wifi_due(close, t) == close /\ ticks_diff(t, last_wifi_attempt) > WIFI_RETRY_INTERVAL

\* variant: the log gate opens only after the interval is exceeded
log_due_late(t) == ticks_diff(t, last_log_time) > LOG_INTERVAL

\* log_sensor_data: "if ticks_diff(current_time, last_log_time) < LOG_INTERVAL: return"
log_due(t) == ~(ticks_diff(t, last_log_time) < LOG_INTERVAL)

\* cleanup_old_logs: "if ticks_diff(current_time, last_cleanup_time) < CLEANUP_INTERVAL: return"
cleanup_due(t) == ~(ticks_diff(t, last_cleanup_time) < CLEANUP_INTERVAL)

-----------------------------------------------------------------------------
(* Logging *)

\* The SD card as log_sensor_data finds it: the day file can be rewritten and
\* the directory listed ("ok"), open / write raises ("fail"), or the write
\* succeeds and os.listdir raises in the cleanup ("listing_fail")
SdEnv == {"ok", "fail", "listing_fail"}

\* cleanup_old_logs at tick t: whether its gate let it run, and
\* last_cleanup_time afterwards (a caught listing error leaves it alone)
cleanup_old_logs(t, sd) ==
    IF ~cleanup_due(t)
    THEN [cleanup |-> FALSE, last_cleanup_time |-> last_cleanup_time]
    ELSE IF sd = "listing_fail"
    THEN [cleanup |-> TRUE, last_cleanup_time |-> last_cleanup_time]
    ELSE [cleanup |-> TRUE, last_cleanup_time |-> t]

\* log_sensor_data at tick t: whether an append was attempted, whether cleanup
\* ran, and the two timestamps afterwards.  A failed write is caught; it leaves
\* last_log_time alone and skips the cleanup check.
log_sensor_data(t, sd) ==
    IF ~log_due(t)
    THEN [log |-> FALSE, log_ok |-> FALSE, cleanup |-> FALSE,
          last_log_time |-> last_log_time, last_cleanup_time |-> last_cleanup_time]
    ELSE IF sd = "fail"
    THEN [log |-> TRUE, log_ok |-> FALSE, cleanup |-> FALSE,
          last_log_time |-> last_log_time, last_cleanup_time |-> last_cleanup_time]
    ELSE LET c == cleanup_old_logs(t, sd)
         IN  [log |-> TRUE, log_ok |-> TRUE, cleanup |-> c.cleanup,
              last_log_time |-> t, last_cleanup_time |-> c.last_cleanup_time]

-----------------------------------------------------------------------------
(* The shutdown sequence *)

\* machine.deepsleep does not return: the device sleeps and reboots on wake
enter_deep_sleep == "asleep"

\* variant: the shutdown sequence syncs on any valid fix
shutdown_sync_any_fix(gps_data) == gps_data.gps_fix_valid

\* handle_shutdown_sequence: "if gps.get('gps_fix_valid') and is_close_to_home(gps)"
shutdown_sync_wanted(gps_data) == gps_data.gps_fix_valid /\ is_close_to_home(gps_data)

\* handle_shutdown_sequence: "if check_wifi(): upload_success = upload_files_ftp()"
shutdown_upload_wanted(wifi_ret) == wifi_ret

\* handle_shutdown_sequence with the station as w and the server as u: the
\* collaborators it invokes, whether anything propagates, and where control
\* is afterwards
handle_shutdown_sequence(gps_data, w, u) ==
    LET sync == shutdown_sync_wanted(gps_data)
        cw == IF sync THEN check_wifi(w)
              ELSE [ret |-> FALSE, connect |-> FALSE, raised |-> FALSE]
        upl == sync /\ ~cw.raised /\ shutdown_upload_wanted(cw.ret)
        up == IF upl THEN upload_files_ftp(u)
              ELSE [ret |-> FALSE, raised |-> FALSE, cwd |-> FALSE]
        raised == cw.raised \/ up.raised
    IN  [wifi |-> sync, connect |-> cw.connect, wifi_ret |-> cw.ret,
         link_up |-> sync /\ link_up(w),
         upload |-> upl, upload_ret |-> up.ret,
         ftp |-> IF upl THEN u ELSE "none",
         display |-> IF ~sync THEN "Away from home"
                     ELSE IF cw.raised THEN "Uploading data..."
                     ELSE IF ~upl THEN "No WiFi"
                     ELSE IF up.raised THEN "Uploading data..."
                     ELSE IF up.ret THEN "Upload complete"
                     ELSE "Upload failed",
         raised |-> raised,
         sleep |-> ~raised,
         pc |-> IF raised THEN "crashed" ELSE enter_deep_sleep]

-----------------------------------------------------------------------------
(* State *)

\* nothing invoked.  wifi: check_wifi was called; link_up: its first
\* isconnected() answered True; connect: sta.connect was issued; log: an append
\* was attempted; log_ok: the day file was rewritten; cleanup: cleanup_old_logs
\* passed its gate; sleep: enter_deep_sleep was reached
NoCalls ==
    [kind |-> "boot", wifi |-> FALSE, connect |-> FALSE, wifi_ret |-> FALSE,
     link_up |-> FALSE, upload |-> FALSE, upload_ret |-> FALSE,
     log |-> FALSE, log_ok |-> FALSE, cleanup |-> FALSE,
     sleep |-> FALSE, raised |-> FALSE]

\* saturating millisecond counters of the observation
SatAdd(a, d, cap) == IF a = None THEN None ELSE Min(a + d, cap + 1)

\* Module initialisation (src/main.py:44-68) and the start of main()
Boot(t) ==
    /\ now = t
    /\ pc = "run"
    /\ sensor_data = [engine |-> FALSE, battery |-> None, wifi |-> FALSE,
                      gps |-> [gps_fix_valid |-> FALSE, latitude |-> None,
                               longitude |-> None, satellites |-> 0],
                      last_update |-> 0]
    /\ engine_off_time = None
    /\ last_wifi_attempt = 0
    /\ last_log_time = 0
    /\ last_cleanup_time = 0
    /\ is_shutting_down = FALSE
    /\ calls = NoCalls
    /\ hist = [off_at |-> None, absent_ms |-> None, discarded |-> FALSE,
               wifi_gap |-> None, shutdowns |-> 0]

Init == steps = 0 /\ UnitsIdle /\ \E t \in BootTicks : Boot(t)

-----------------------------------------------------------------------------
(* One iteration of the main loop: update_sensors, then the pause *)

\* The sensor interval has not elapsed: update_sensors returns at once
SkipWith(d) ==
    /\ ~sensor_due(now)
    /\ now' = ticks_add(now, d)
    /\ calls' = [NoCalls EXCEPT !.kind = "noop"]
    /\ hist' = [hist EXCEPT !.absent_ms = SatAdd(@, d, SHUTDOWN_DELAY),
                            !.wifi_gap = SatAdd(@, d, WIFI_RETRY_INTERVAL)]
    /\ UNCHANGED <<pc, sensor_data, engine_off_time, last_wifi_attempt, last_log_time,
                   last_cleanup_time, is_shutting_down>>

SkipTick ==
    /\ pc = "run"
    /\ steps < MaxSteps
    /\ ~sensor_due(now)
    /\ \E d \in Deltas : SkipWith(d)
    /\ steps' = steps + 1
    /\ UNCHANGED unit_vars

\* A full refresh: engine sample eng, battery read batt, GPS poll result fix,
\* station w, SD card sd (drawn only where the refresh consults them)
RefreshWith(d, eng, batt, fix, w, sd) ==
    /\ sensor_due(now)
    /\ ~shutdown_due(sensor_data.engine, eng, now)
    /\ LET prev == sensor_data.engine
           close == close_to_home(fix)
           attempt == wifi_due(close, now)
           cw == IF attempt THEN check_wifi(w)
                 ELSE [ret |-> link_up(w), connect |-> FALSE, raised |-> FALSE]
           lg == log_sensor_data(now, sd)
           off == IF eng THEN None ELSE IF prev THEN 0 ELSE hist.absent_ms
       IN  /\ engine_off_time' = next_engine_off_time(prev, eng, now)
           /\ last_wifi_attempt' = IF attempt THEN now ELSE last_wifi_attempt
           /\ last_log_time' = lg.last_log_time
           /\ last_cleanup_time' = lg.last_cleanup_time
           /\ sensor_data' = [engine |-> eng, battery |-> batt, wifi |-> cw.ret,
                              gps |-> fix, last_update |-> now]
           /\ calls' = [NoCalls EXCEPT !.kind = "refresh", !.wifi = attempt,
                                       !.connect = cw.connect, !.wifi_ret = cw.ret,
                                       !.link_up = attempt /\ link_up(w),
                                       !.log = lg.log, !.log_ok = lg.log_ok,
                                       !.cleanup = lg.cleanup,
                                       !.raised = cw.raised]
           /\ pc' = IF cw.raised THEN "crashed" ELSE "run"
           /\ hist' = [hist EXCEPT
                         !.off_at = IF eng THEN None ELSE IF prev THEN now ELSE @,
                         !.absent_ms = SatAdd(off, d, SHUTDOWN_DELAY),
                         !.discarded = @ \/ (eng /\ hist.off_at # None),
                         !.wifi_gap = SatAdd(IF attempt THEN 0 ELSE @, d, WIFI_RETRY_INTERVAL)]
    /\ now' = ticks_add(now, d)
    /\ UNCHANGED is_shutting_down

RefreshTick ==
    /\ pc = "run"
    /\ steps < MaxSteps
    /\ sensor_due(now)
    /\ \E eng \in BOOLEAN :
        /\ ~shutdown_due(sensor_data.engine, eng, now)
        /\ \E fix \in GpsReads, batt \in BatteryReads :
             \E w \in IF wifi_due(close_to_home(fix), now) THEN WifiEnv ELSE LinkEnv,
                sd \in IF ~log_due(now) THEN {"ok"}
                       ELSE IF cleanup_due(now) THEN SdEnv ELSE {"ok", "fail"},
                d \in Deltas :
                 RefreshWith(d, eng, batt, fix, w, sd)
    /\ steps' = steps + 1
    /\ UNCHANGED unit_vars

\* variant: the refresh stamps the snapshot before it returns
snapshot_at_shutdown_stamped(snapshot, eng, t) ==
    [snapshot EXCEPT !.engine = eng, !.last_update = t]

\* the snapshot after the refresh that starts the shutdown sequence: the
\* engine sample of line 702 is all that was written before the return of
\* line 717
snapshot_at_shutdown(snapshot, eng, t) == [snapshot EXCEPT !.engine = eng]

\* The refresh that starts the shutdown sequence: only the engine sample is
\* stored, handle_shutdown_sequence runs, update_sensors returns early
ShutdownWith(d, eng, w, u) ==
    /\ sensor_due(now)
    /\ shutdown_due(sensor_data.engine, eng, now)
    /\ LET h == handle_shutdown_sequence(sensor_data.gps, w, u)
       IN  /\ calls' = [NoCalls EXCEPT !.kind = "shutdown", !.wifi = h.wifi,
                                       !.connect = h.connect, !.wifi_ret = h.wifi_ret,
                                       !.link_up = h.link_up,
                                       !.upload = h.upload, !.upload_ret = h.upload_ret,
                                       !.sleep = h.sleep, !.raised = h.raised]
           /\ pc' = h.pc
    /\ sensor_data' = snapshot_at_shutdown(sensor_data, eng, now)
    /\ is_shutting_down' = TRUE
    /\ hist' = [hist EXCEPT !.shutdowns = @ + 1]
    /\ now' = ticks_add(now, d)
    /\ UNCHANGED <<engine_off_time, last_wifi_attempt, last_log_time, last_cleanup_time>>

ShutdownTick ==
    /\ pc = "run"
    /\ steps < MaxSteps
    /\ sensor_due(now)
    /\ \E eng \in BOOLEAN :
        /\ shutdown_due(sensor_data.engine, eng, now)
        /\ \E w \in IF shutdown_sync_wanted(sensor_data.gps) THEN WifiEnv ELSE LinkEnv,
              u \in FtpEnv, d \in Deltas :
               ShutdownWith(d, eng, w, u)
    /\ steps' = steps + 1
    /\ UNCHANGED unit_vars

\* Wake from deep sleep: the device reboots, the module is initialised again
WakeAt(t) ==
    /\ now' = t
    /\ pc' = "run"
    /\ sensor_data' = [engine |-> FALSE, battery |-> None, wifi |-> FALSE,
                       gps |-> [gps_fix_valid |-> FALSE, latitude |-> None,
                                longitude |-> None, satellites |-> 0],
                       last_update |-> 0]
    /\ engine_off_time' = None
    /\ last_wifi_attempt' = 0
    /\ last_log_time' = 0
    /\ last_cleanup_time' = 0
    /\ is_shutting_down' = FALSE
    /\ calls' = NoCalls
    /\ hist' = [off_at |-> None, absent_ms |-> None, discarded |-> FALSE,
                wifi_gap |-> None, shutdowns |-> 0]

Wake ==
    /\ pc = "asleep"
    /\ \E t \in BootTicks : WakeAt(t)
    /\ steps' = 0
    /\ UNCHANGED unit_vars

Next ==
    \/ SkipTick
    \/ RefreshTick
    \/ ShutdownTick
    \/ Wake

Spec == Init /\ [][Next]_vars

-----------------------------------------------------------------------------
(* The loop left running without a bound on its iterations.  Every iteration
   takes LiveDelta ms; the GPS has no fix and the SD card is out, so the only
   timers that move are last_update and engine_off_time. *)

LiveDelta == 2^20
LiveBootTicks == {LiveDelta, TICKS_HALF, TICKS_PERIOD - LiveDelta}

LiveInit == steps = 0 /\ UnitsIdle /\ \E t \in LiveBootTicks : Boot(t)

LiveSkip ==
    /\ pc = "run"
    /\ ~sensor_due(now)
    /\ SkipWith(LiveDelta)
    /\ UNCHANGED <<steps, unit_vars>>

LiveRefresh ==
    /\ pc = "run"
    /\ sensor_due(now)
    /\ \E eng \in BOOLEAN, batt \in BatteryReads, w \in LinkEnv :
         RefreshWith(LiveDelta, eng, batt, NoFix, w, "fail")
    /\ UNCHANGED <<steps, unit_vars>>

LiveShutdown ==
    /\ pc = "run"
    /\ sensor_due(now)
    /\ \E eng \in BOOLEAN, w \in LinkEnv, u \in FtpEnv :
         ShutdownWith(LiveDelta, eng, w, u)
    /\ UNCHANGED <<steps, unit_vars>>

LiveWake ==
    /\ pc = "asleep"
    /\ \E t \in LiveBootTicks : WakeAt(t)
    /\ UNCHANGED <<steps, unit_vars>>

LiveNext ==
    \/ LiveSkip
    \/ LiveRefresh
    \/ LiveShutdown
    \/ LiveWake

\* main's "while True" never stops iterating, and deep sleep always wakes
LiveSpec == LiveInit /\ [][LiveNext]_vars /\ WF_vars(LiveNext)

-----------------------------------------------------------------------------
(* NMEA text.  A string is a sequence of one-character strings; a line is
   the list of its comma-separated fields (line_str.split(',')), or a byte
   string that does not decode as ASCII. *)

Digits == {"0", "1", "2", "3", "4", "5", "6", "7", "8", "9"}

DigitVal(c) ==
    CASE c = "0" -> 0 [] c = "1" -> 1 [] c = "2" -> 2 [] c = "3" -> 3 [] c = "4" -> 4
      [] c = "5" -> 5 [] c = "6" -> 6 [] c = "7" -> 7 [] c = "8" -> 8 [] c = "9" -> 9

\* s[a:b] of Python, 0-based and never raising
Slice(s, a, b) == SubSeq(s, a + 1, Min(b, Len(s)))
SliceFrom(s, a) == SubSeq(s, a + 1, Len(s))

\* str.startswith
startswith(s, prefix) ==
    Len(s) >= Len(prefix) /\ SubSeq(s, 1, Len(prefix)) = prefix

\* str.isdigit: non-empty and digits only
isdigit(s) == Len(s) > 0 /\ \A i \in 1..Len(s) : s[i] \in Digits

\* int() of a digit string
RECURSIVE int_of(_)
int_of(s) ==
    IF Len(s) = 0 THEN 0
    ELSE 10 * int_of(SubSeq(s, 1, Len(s) - 1)) + DigitVal(s[Len(s)])

\* float() accepts digits with at most one decimal point and at least one
\* digit; anything else raises ValueError
float_ok(s) ==
    /\ \A i \in 1..Len(s) : s[i] \in Digits \cup {"."}
    /\ Cardinality({i \in 1..Len(s) : s[i] = "."}) <= 1
    /\ \E i \in 1..Len(s) : s[i] \in Digits

\* position of the decimal point, Len(s) + 1 when there is none
PointAt(s) ==
    IF \E i \in 1..Len(s) : s[i] = "."
    THEN CHOOSE i \in 1..Len(s) : s[i] = "."
    ELSE Len(s) + 1

\* float() in thousandths (three decimals kept)
float_milli(s) ==
    LET p == PointAt(s)
        frac == SubSeq(SubSeq(s, p + 1, Len(s)) \o <<"0", "0", "0">>, 1, 3)
    IN  1000 * int_of(SubSeq(s, 1, p - 1)) + int_of(frac)

\* "ddmm.mmm" -> degrees, in millionths of a degree:
\* float(s[:n]) + float(s[n:]) / 60.0
degrees_micro(s, n) ==
    1000 * float_milli(Slice(s, 0, n)) + (1000 * float_milli(SliceFrom(s, n))) \div 60

\* knots (thousandths) -> km/h in millionths: speed_knots * 1.852
kmh_micro(knots_milli) == knots_milli * 1852

\* f"{t[:2]}:{t[2:4]}:{t[4:6]}"
time_formatted(t) == Slice(t, 0, 2) \o <<":">> \o Slice(t, 2, 4) \o <<":">> \o Slice(t, 4, 6)

UnknownTime == <<"?", "?", ":", "?", "?", ":", "?", "?">>

-----------------------------------------------------------------------------
(* The lines the receiver delivers in the model *)

\* the fields of the line called name (line_str.split(','))
LineParts(name) ==
\* the reference sentence: twelve fields
\* $GPRMC,123519,A,4807.038,N,01131.000,E,022.4,084.4,230394,003.1,W*6A
    CASE name = "RefRmc" ->
    <<<<"$", "G", "P", "R", "M", "C">>,
     <<"1", "2", "3", "5", "1", "9">>,
     <<"A">>,
     <<"4", "8", "0", "7", ".", "0", "3", "8">>,
     <<"N">>,
     <<"0", "1", "1", "3", "1", ".", "0", "0", "0">>,
     <<"E">>,
     <<"0", "2", "2", ".", "4">>,
     <<"0", "8", "4", ".", "4">>,
     <<"2", "3", "0", "3", "9", "4">>,
     <<"0", "0", "3", ".", "1">>,
     <<"W", "*", "6", "A">>>>

\* the same fix with the thirteenth (mode) field
\* $GPRMC,123519,A,4807.038,N,01131.000,E,022.4,084.4,230394,003.1,W,A*6A
      [] name = "ActiveRmc" ->
    <<<<"$", "G", "P", "R", "M", "C">>,
     <<"1", "2", "3", "5", "1", "9">>,
     <<"A">>,
     <<"4", "8", "0", "7", ".", "0", "3", "8">>,
     <<"N">>,
     <<"0", "1", "1", "3", "1", ".", "0", "0", "0">>,
     <<"E">>,
     <<"0", "2", "2", ".", "4">>,
     <<"0", "8", "4", ".", "4">>,
     <<"2", "3", "0", "3", "9", "4">>,
     <<"0", "0", "3", ".", "1">>,
     <<"W">>,
     <<"A", "*", "6", "A">>>>

\* southern / western hemisphere, walking pace, short time field
\* $GNRMC,12,A,3345.500,S,07030.000,W,000.3,,230394,,,A*00
      [] name = "SouthWestRmc" ->
    <<<<"$", "G", "N", "R", "M", "C">>,
     <<"1", "2">>,
     <<"A">>,
     <<"3", "3", "4", "5", ".", "5", "0", "0">>,
     <<"S">>,
     <<"0", "7", "0", "3", "0", ".", "0", "0", "0">>,
     <<"W">>,
     <<"0", "0", "0", ".", "3">>,
     <<>>,
     <<"2", "3", "0", "3", "9", "4">>,
     <<>>,
     <<>>,
     <<"A", "*", "0", "0">>>>

\* status V (receiver warning)
\* $GPRMC,123519,V,4807.038,N,01131.000,E,022.4,084.4,230394,003.1,W,N*6A
      [] name = "VoidRmc" ->
    <<<<"$", "G", "P", "R", "M", "C">>,
     <<"1", "2", "3", "5", "1", "9">>,
     <<"V">>,
     <<"4", "8", "0", "7", ".", "0", "3", "8">>,
     <<"N">>,
     <<"0", "1", "1", "3", "1", ".", "0", "0", "0">>,
     <<"E">>,
     <<"0", "2", "2", ".", "4">>,
     <<"0", "8", "4", ".", "4">>,
     <<"2", "3", "0", "3", "9", "4">>,
     <<"0", "0", "3", ".", "1">>,
     <<"W">>,
     <<"N", "*", "6", "A">>>>

\* latitude that is no number
\* $GPRMC,123519,A,48x7.038,N,01131.000,E,022.4,084.4,230394,003.1,W,A*6A
      [] name = "BadLatRmc" ->
    <<<<"$", "G", "P", "R", "M", "C">>,
     <<"1", "2", "3", "5", "1", "9">>,
     <<"A">>,
     <<"4", "8", "x", "7", ".", "0", "3", "8">>,
     <<"N">>,
     <<"0", "1", "1", "3", "1", ".", "0", "0", "0">>,
     <<"E">>,
     <<"0", "2", "2", ".", "4">>,
     <<"0", "8", "4", ".", "4">>,
     <<"2", "3", "0", "3", "9", "4">>,
     <<"0", "0", "3", ".", "1">>,
     <<"W">>,
     <<"A", "*", "6", "A">>>>

\* speed that is no number
\* $GPRMC,123519,A,4807.038,N,01131.000,E,2x.4,084.4,230394,003.1,W,A*6A
      [] name = "BadSpeedRmc" ->
    <<<<"$", "G", "P", "R", "M", "C">>,
     <<"1", "2", "3", "5", "1", "9">>,
     <<"A">>,
     <<"4", "8", "0", "7", ".", "0", "3", "8">>,
     <<"N">>,
     <<"0", "1", "1", "3", "1", ".", "0", "0", "0">>,
     <<"E">>,
     <<"2", "x", ".", "4">>,
     <<"0", "8", "4", ".", "4">>,
     <<"2", "3", "0", "3", "9", "4">>,
     <<"0", "0", "3", ".", "1">>,
     <<"W">>,
     <<"A", "*", "6", "A">>>>

\* latitude shorter than four characters
\* $GPRMC,123519,A,48,N,01131.000,E,022.4,084.4,230394,003.1,W,A*6A
      [] name = "ShortLatRmc" ->
    <<<<"$", "G", "P", "R", "M", "C">>,
     <<"1", "2", "3", "5", "1", "9">>,
     <<"A">>,
     <<"4", "8">>,
     <<"N">>,
     <<"0", "1", "1", "3", "1", ".", "0", "0", "0">>,
     <<"E">>,
     <<"0", "2", "2", ".", "4">>,
     <<"0", "8", "4", ".", "4">>,
     <<"2", "3", "0", "3", "9", "4">>,
     <<"0", "0", "3", ".", "1">>,
     <<"W">>,
     <<"A", "*", "6", "A">>>>

\* empty longitude
\* $GPRMC,123519,A,4807.038,N,,E,022.4,084.4,230394,003.1,W,A*6A
      [] name = "EmptyLonRmc" ->
    <<<<"$", "G", "P", "R", "M", "C">>,
     <<"1", "2", "3", "5", "1", "9">>,
     <<"A">>,
     <<"4", "8", "0", "7", ".", "0", "3", "8">>,
     <<"N">>,
     <<>>,
     <<"E">>,
     <<"0", "2", "2", ".", "4">>,
     <<"0", "8", "4", ".", "4">>,
     <<"2", "3", "0", "3", "9", "4">>,
     <<"0", "0", "3", ".", "1">>,
     <<"W">>,
     <<"A", "*", "6", "A">>>>

\* eight satellites
\* $GPGGA,123519,4807.038,N,01131.000,E,1,08,0.9,545.4,M,46.9,M,,*47
      [] name = "GoodGga" ->
    <<<<"$", "G", "P", "G", "G", "A">>,
     <<"1", "2", "3", "5", "1", "9">>,
     <<"4", "8", "0", "7", ".", "0", "3", "8">>,
     <<"N">>,
     <<"0", "1", "1", "3", "1", ".", "0", "0", "0">>,
     <<"E">>,
     <<"1">>,
     <<"0", "8">>,
     <<"0", ".", "9">>,
     <<"5", "4", "5", ".", "4">>,
     <<"M">>,
     <<"4", "6", ".", "9">>,
     <<"M">>,
     <<>>,
     <<"*", "4", "7">>>>

\* empty satellite field
\* $GPGGA,123519,4807.038,N,01131.000,E,1,,0.9,545.4,M,46.9,M,,*47
      [] name = "EmptySatsGga" ->
    <<<<"$", "G", "P", "G", "G", "A">>,
     <<"1", "2", "3", "5", "1", "9">>,
     <<"4", "8", "0", "7", ".", "0", "3", "8">>,
     <<"N">>,
     <<"0", "1", "1", "3", "1", ".", "0", "0", "0">>,
     <<"E">>,
     <<"1">>,
     <<>>,
     <<"0", ".", "9">>,
     <<"5", "4", "5", ".", "4">>,
     <<"M">>,
     <<"4", "6", ".", "9">>,
     <<"M">>,
     <<>>,
     <<"*", "4", "7">>>>

\* satellite field that is not all digits
\* $GPGGA,123519,4807.038,N,01131.000,E,1,x8,0.9,545.4,M,46.9,M,,*47
      [] name = "BadSatsGga" ->
    <<<<"$", "G", "P", "G", "G", "A">>,
     <<"1", "2", "3", "5", "1", "9">>,
     <<"4", "8", "0", "7", ".", "0", "3", "8">>,
     <<"N">>,
     <<"0", "1", "1", "3", "1", ".", "0", "0", "0">>,
     <<"E">>,
     <<"1">>,
     <<"x", "8">>,
     <<"0", ".", "9">>,
     <<"5", "4", "5", ".", "4">>,
     <<"M">>,
     <<"4", "6", ".", "9">>,
     <<"M">>,
     <<>>,
     <<"*", "4", "7">>>>

\* fragment with seven fields
\* $GPGGA,123519,4807.038,N,01131.000,E,1
      [] name = "ShortGga" ->
    <<<<"$", "G", "P", "G", "G", "A">>,
     <<"1", "2", "3", "5", "1", "9">>,
     <<"4", "8", "0", "7", ".", "0", "3", "8">>,
     <<"N">>,
     <<"0", "1", "1", "3", "1", ".", "0", "0", "0">>,
     <<"E">>,
     <<"1">>>>

\* another sentence family
\* $GPGSV,3,1,11
      [] name = "Gsv" ->
    <<<<"$", "G", "P", "G", "S", "V">>,
     <<"3">>,
     <<"1">>,
     <<"1", "1">>>>

\* an active RMC that lost its start marker
\* GPRMC,123519,A,4807.038,N,01131.000,E,022.4,084.4,230394,003.1,W,A*6A
      [] name = "NoDollar" ->
    <<<<"G", "P", "R", "M", "C">>,
     <<"1", "2", "3", "5", "1", "9">>,
     <<"A">>,
     <<"4", "8", "0", "7", ".", "0", "3", "8">>,
     <<"N">>,
     <<"0", "1", "1", "3", "1", ".", "0", "0", "0">>,
     <<"E">>,
     <<"0", "2", "2", ".", "4">>,
     <<"0", "8", "4", ".", "4">>,
     <<"2", "3", "0", "3", "9", "4">>,
     <<"0", "0", "3", ".", "1">>,
     <<"W">>,
     <<"A", "*", "6", "A">>>>

\* what gps_uart.readline() can hand over, by name; "garbled" is a byte string
\* that does not decode as ASCII
LineNames == {"RefRmc", "ActiveRmc", "SouthWestRmc", "VoidRmc", "BadLatRmc", "BadSpeedRmc",
              "ShortLatRmc", "EmptyLonRmc", "GoodGga", "EmptySatsGga", "BadSatsGga",
              "ShortGga", "Gsv", "NoDollar", "garbled"}

LineOf(name) ==
    IF name = "garbled" THEN [ascii |-> FALSE, parts |-> <<>>]
    ELSE [ascii |-> TRUE, parts |-> LineParts(name)]

-----------------------------------------------------------------------------
(* read_gps *)

gps_timeout == 3000

NoTime == <<>>

\* read_gps's initial dictionary; None / NoTime stand for a key that is absent
GpsEmpty ==
    [gps_fix_valid |-> FALSE, latitude |-> None, longitude |-> None, speed |-> None,
     time |-> NoTime, satellites |-> 0, error |-> FALSE]

\* the dictionary of the outer except clause
GpsError == [GpsEmpty EXCEPT !.error = TRUE]

\* variant: the position is stored before the speed is converted
rmc_parse_position_first(parts) ==
    LET lat_str == parts[4]
        lon_str == parts[6]
    IN  IF ~(Len(lat_str) >= 4 /\ Len(lon_str) >= 5)
        THEN [raised |-> FALSE, accepted |-> FALSE, update |-> GpsEmpty]
        ELSE IF \/ ~float_ok(Slice(lat_str, 0, 2)) \/ ~float_ok(SliceFrom(lat_str, 2))
                \/ ~float_ok(Slice(lon_str, 0, 3)) \/ ~float_ok(SliceFrom(lon_str, 3))
        THEN [raised |-> TRUE, accepted |-> FALSE, update |-> GpsEmpty]
        ELSE [raised |-> FALSE, accepted |-> TRUE,
              update |-> [GpsEmpty EXCEPT !.gps_fix_valid = TRUE,
                                          !.latitude = degrees_micro(lat_str, 2),
                                          !.longitude = degrees_micro(lon_str, 3)]]

\* the body of "if status == 'A' and lat_str and lon_str": the coordinates,
\* the speed and the time are converted first, the dictionary is updated last
rmc_parse(parts) ==
    LET time_str == parts[2]
        lat_str == parts[4]
        lat_dir == parts[5]
        lon_str == parts[6]
        lon_dir == parts[7]
        speed_str == parts[8]
    IN  IF ~(Len(lat_str) >= 4 /\ Len(lon_str) >= 5)
        THEN [raised |-> FALSE, accepted |-> FALSE, update |-> GpsEmpty]
        ELSE IF \/ ~float_ok(Slice(lat_str, 0, 2)) \/ ~float_ok(SliceFrom(lat_str, 2))
                \/ ~float_ok(Slice(lon_str, 0, 3)) \/ ~float_ok(SliceFrom(lon_str, 3))
                \/ (speed_str # <<>> /\ ~float_ok(speed_str))
        THEN [raised |-> TRUE, accepted |-> FALSE, update |-> GpsEmpty]
        ELSE LET lat0 == degrees_micro(lat_str, 2)
                 lon0 == degrees_micro(lon_str, 3)
                 speed_kmh == IF speed_str # <<>> THEN kmh_micro(float_milli(speed_str)) ELSE 0
             IN  [raised |-> FALSE, accepted |-> TRUE,
                  update |-> [gps_fix_valid |-> TRUE,
                              latitude |-> IF lat_dir = <<"S">> THEN -lat0 ELSE lat0,
                              longitude |-> IF lon_dir = <<"W">> THEN -lon0 ELSE lon0,
                              speed |-> IF speed_kmh > 1000000 THEN speed_kmh ELSE 0,
                              time |-> IF time_str # <<>> /\ Len(time_str) >= 6
                                       THEN time_formatted(time_str) ELSE UnknownTime]]

\* "if status == 'A' and lat_str and lon_str"
rmc_any_status(parts) == parts[4] # <<>> /\ parts[6] # <<>>

rmc_active(parts) == parts[3] = <<"A">> /\ parts[4] # <<>> /\ parts[6] # <<>>

is_rmc(parts) ==
    \/ startswith(parts[1], <<"$", "G", "P", "R", "M", "C">>)
    \/ startswith(parts[1], <<"$", "G", "N", "R", "M", "C">>)

is_gga(parts) ==
    \/ startswith(parts[1], <<"$", "G", "P", "G", "G", "A">>)
    \/ startswith(parts[1], <<"$", "G", "N", "G", "G", "A">>)

\* One pass of the while body over a line that was delivered.  st holds the
\* locals gps_data, gprmc_found, gpgga_found; ret = the early return was taken.
read_gps_line(st, line) ==
    LET same == [gps_data |-> st.gps_data, gprmc_found |-> st.gprmc_found,
                 gpgga_found |-> st.gpgga_found, ret |-> FALSE]
        parts == line.parts
        done(s) == [s EXCEPT !.ret = s.gprmc_found /\ s.gpgga_found]
    IN  IF ~line.ascii THEN same
        ELSE IF ~startswith(parts[1], <<"$">>) THEN same
        ELSE IF is_rmc(parts)
        THEN IF Len(parts) >= 13 /\ rmc_active(parts)
             THEN LET r == rmc_parse(parts)
                  IN  IF r.raised THEN same
                      ELSE IF r.accepted
                      THEN done([same EXCEPT
                                   !.gps_data = [st.gps_data EXCEPT
                                                   !.gps_fix_valid = TRUE,
                                                   !.latitude = r.update.latitude,
                                                   !.longitude = r.update.longitude,
                                                   !.speed = r.update.speed,
                                                   !.time = r.update.time],
                                   !.gprmc_found = TRUE])
                      ELSE done(same)
             ELSE done(same)
        ELSE IF is_gga(parts)
        THEN IF Len(parts) >= 8 /\ parts[8] # <<>> /\ isdigit(parts[8])
             THEN done([same EXCEPT !.gps_data.satellites = int_of(parts[8]),
                                    !.gpgga_found = TRUE])
             ELSE done(same)
        ELSE done(same)

-----------------------------------------------------------------------------
(* One call of read_gps, one pass of its while loop per step, and the caller
   storing the result (update_sensors, src/main.py:725).  The debug counter
   lines_processed feeds a print only and is left out. *)

\* the tick at which a poll starts: well inside the range, and so close to the
\* wrap that the window straddles it
GpsStartTicks == {SENSOR_UPDATE_INTERVAL, TICKS_PERIOD - 1500}

\* the time one pass of the loop takes (readline plus the pause): three passes
\* fit into the window, the fourth test of the while condition finds it closed
GpsDeltas == {1000}

\* an active RMC sentence with numeric coordinates, whatever else it carries
ActiveWithPosition(line) ==
    /\ line.ascii
    /\ is_rmc(line.parts)
    /\ Len(line.parts) >= 7
    /\ line.parts[3] = <<"A">>
    /\ float_ok(line.parts[4])
    /\ float_ok(line.parts[6])

\* variant: the window is tested by direct ordering of the raw ticks
gps_window_open_by_order == now < gps_poll.start_time + gps_timeout

\* "while time.ticks_diff(time.ticks_ms(), start_time) < timeout"
gps_window_open == ticks_diff(now, gps_poll.start_time) < gps_timeout

\* variant: the except clause hands back what was accumulated
read_gps_failed_keeps(acc) == acc

\* "except Exception as e: return {gps_fix_valid: False, satellites: 0, error: str(e)}"
read_gps_failed(acc) == GpsError

\* read_gps entered at tick t: start_time, the fresh dictionary, the flags.
\* last = the line of the latest pass; seen_active and polls are observations
\* (an active RMC with numeric coordinates was delivered in this window; polls
\* made so far)
GpsEntered(t, n) ==
    [pc |-> "loop", start_time |-> t, gps_data |-> GpsEmpty,
     gprmc_found |-> FALSE, gpgga_found |-> FALSE, last |-> "none",
     result |-> GpsEmpty, seen_active |-> FALSE, polls |-> n]

GpsInit ==
    /\ steps = 0
    /\ sd_card = SdIdle
    /\ probe = ProbeIdle
    /\ \E t \in GpsStartTicks : Boot(t) /\ gps_poll = GpsEntered(t, 1)

\* readline() delivered the line called name
GpsLineWith(name, d) ==
    LET st == [gps_data |-> gps_poll.gps_data, gprmc_found |-> gps_poll.gprmc_found,
               gpgga_found |-> gps_poll.gpgga_found]
        r == read_gps_line(st, LineOf(name))
    IN  /\ gps_poll' = [gps_poll EXCEPT
                          !.gps_data = r.gps_data,
                          !.gprmc_found = r.gprmc_found,
                          !.gpgga_found = r.gpgga_found,
                          !.last = name,
                          !.seen_active = @ \/ ActiveWithPosition(LineOf(name)),
                          !.pc = IF r.ret THEN "returned" ELSE "loop",
                          !.result = IF r.ret THEN r.gps_data ELSE @]
        /\ now' = ticks_add(now, d)
        /\ UNCHANGED <<loop_vars, sd_card, probe>>

GpsLine ==
    /\ gps_poll.pc = "loop"
    /\ gps_window_open
    /\ \E name \in LineNames, d \in GpsDeltas : GpsLineWith(name, d)

\* readline() had nothing: time.sleep(0.01), next pass
GpsNoLine ==
    /\ gps_poll.pc = "loop"
    /\ gps_window_open
    /\ gps_poll' = [gps_poll EXCEPT !.last = "nothing"]
    /\ \E d \in GpsDeltas : now' = ticks_add(now, d)
    /\ UNCHANGED <<loop_vars, sd_card, probe>>

\* readline() raised: the outer except clause returns the error dictionary
GpsRaise ==
    /\ gps_poll.pc = "loop"
    /\ gps_window_open
    /\ gps_poll' = [gps_poll EXCEPT !.last = "raise", !.pc = "returned",
                                    !.result = read_gps_failed(gps_poll.gps_data)]
    /\ \E d \in GpsDeltas : now' = ticks_add(now, d)
    /\ UNCHANGED <<loop_vars, sd_card, probe>>

\* the while condition fails: return gps_data as accumulated
GpsTimeout ==
    /\ gps_poll.pc = "loop"
    /\ ~gps_window_open
    /\ gps_poll' = [gps_poll EXCEPT !.last = "timeout", !.pc = "returned",
                                    !.result = gps_poll.gps_data]
    /\ UNCHANGED <<now, loop_vars, sd_card, probe>>

\* update_sensors stores the result and goes on: sensor_data["gps"] = read_gps()
GpsStore ==
    /\ gps_poll.pc = "returned"
    /\ sensor_data' = [sensor_data EXCEPT !.gps = gps_poll.result]
    /\ gps_poll' = [gps_poll EXCEPT !.pc = "stored"]
    /\ UNCHANGED <<now, pc, engine_off_time, last_wifi_attempt, last_log_time,
                   last_cleanup_time, is_shutting_down, calls, hist, steps, sd_card, probe>>

MaxPolls == 2

\* variant: read_gps goes on with the dictionary it returned last
gps_data_at_entry_kept(previous) == previous

\* "gps_data = {"gps_fix_valid": False, "satellites": 0}": a new dictionary
\* on every call, whatever the previous call returned
gps_data_at_entry(previous) == GpsEmpty

\* the next refresh polls again, with a fresh dictionary
GpsCall ==
    /\ gps_poll.pc = "stored"
    /\ gps_poll.polls < MaxPolls
    /\ \E t \in GpsStartTicks :
         /\ now' = t
         /\ gps_poll' = [GpsEntered(t, gps_poll.polls + 1) EXCEPT
                           !.gps_data = gps_data_at_entry(gps_poll.result)]
    /\ UNCHANGED <<loop_vars, sd_card, probe>>

GpsNext ==
    \/ GpsLine
    \/ GpsNoLine
    \/ GpsRaise
    \/ GpsTimeout
    \/ GpsStore
    \/ GpsCall

\* the loop keeps running and the clock keeps advancing
GpsSpec == GpsInit /\ [][GpsNext]_vars /\ WF_vars(GpsNext)

-----------------------------------------------------------------------------
(* The calendar and the names of the daily log files.  time.time() counts
   seconds from 2000-01-01 00:00:00; a date is <<year, month, day>>. *)

LOG_RETENTION_DAYS == 28
SecondsPerDay == 86400

\* days from 2000-01-01 to the first day of month m of year y, plus d - 1
\* (the proleptic Gregorian calendar of time.mktime / time.localtime)
days_from_civil(y, m, d) ==
    LET yy  == IF m <= 2 THEN y - 1 ELSE y
        era == yy \div 400
        yoe == yy - era * 400
        mp  == IF m > 2 THEN m - 3 ELSE m + 9
        doy == (153 * mp + 2) \div 5
        doe == yoe * 365 + yoe \div 4 - yoe \div 100 + doy
    IN  era * 146097 + doe - 730425 + (d - 1)

\* time.mktime((year, month, day, 0, 0, 0, 0, 0)): a month outside 1..12 and
\* a day outside the month are carried over, not refused
mktime(y, m, d) ==
    LET yn == y + (m - 1) \div 12
        mn == ((m - 1) % 12) + 1
    IN  SecondsPerDay * days_from_civil(yn, mn, d)

\* time.localtime(timestamp)[0:3]
localtime(timestamp) ==
    LET z   == timestamp \div SecondsPerDay + 730425
        era == z \div 146097
        doe == z - era * 146097
        yoe == (doe - doe \div 1460 + doe \div 36524 - doe \div 146096) \div 365
        doy == doe - (365 * yoe + yoe \div 4 - yoe \div 100)
        mp  == (5 * doy + 2) \div 153
        d   == doy - (153 * mp + 2) \div 5 + 1
        m   == IF mp < 10 THEN mp + 3 ELSE mp - 9
        y   == yoe + era * 400
    IN  <<IF m <= 2 THEN y + 1 ELSE y, m, d>>

DigitChar(n) ==
    CASE n = 0 -> "0" [] n = 1 -> "1" [] n = 2 -> "2" [] n = 3 -> "3" [] n = 4 -> "4"
      [] n = 5 -> "5" [] n = 6 -> "6" [] n = 7 -> "7" [] n = 8 -> "8" [] n = 9 -> "9"

\* str(n) for n >= 0
RECURSIVE str_of(_)
str_of(n) == IF n < 10 THEN <<DigitChar(n)>> ELSE str_of(n \div 10) \o <<DigitChar(n % 10)>>

\* f"{n:0<width>d}": padded with zeros on the left, never cut
RECURSIVE zero_padded(_, _)
zero_padded(s, width) == IF Len(s) >= width THEN s ELSE zero_padded(<<"0">> \o s, width)

\* get_date_string: f"{t[0]:04d}-{t[1]:02d}-{t[2]:02d}"
get_date_string(timestamp) ==
    LET t == localtime(timestamp)
    IN  zero_padded(str_of(t[1]), 4) \o <<"-">> \o zero_padded(str_of(t[2]), 2)
          \o <<"-">> \o zero_padded(str_of(t[3]), 2)

van_log_ == <<"v", "a", "n", "_", "l", "o", "g", "_">>
dot_json == <<".", "j", "s", "o", "n">>

\* f"van_log_{date_str}.json", the name of the day file inside SD_MOUNT_PATH
log_filename(date_str) == van_log_ \o date_str \o dot_json

\* str.endswith
endswith(s, suffix) ==
    Len(s) >= Len(suffix) /\ SubSeq(s, Len(s) - Len(suffix) + 1, Len(s)) = suffix

\* str.count of one character
count(s, c) == Cardinality({i \in 1..Len(s) : s[i] = c})

\* filename[8:-5]
date_part(filename) == SubSeq(filename, 9, Len(filename) - 5)

\* s.split('-') of a string with exactly two dashes
split_dash(s) ==
    LET at == {i \in 1..Len(s) : s[i] = "-"}
        i  == CHOOSE k \in at : \A l \in at : k <= l
        j  == CHOOSE k \in at : \A l \in at : k >= l
    IN  <<SubSeq(s, 1, i - 1), SubSeq(s, i + 1, j - 1), SubSeq(s, j + 1, Len(s))>>

\* the comprehension that selects the log files of the listing
is_log_file(f) == startswith(f, van_log_) /\ endswith(f, dot_json)

\* "len(date_part) == 10 and date_part.count('-') == 2"
date_shaped(dp) == Len(dp) = 10 /\ count(dp, "-") = 2

\* int(year), int(month), int(day) raise ValueError unless each part is a
\* digit string (the names of the model hold no sign and no blank)
date_raises(dp) == \E k \in 1..3 : ~isdigit(split_dash(dp)[k])

\* file_timestamp of a shaped date part whose three parts are numbers
file_timestamp(dp) ==
    LET parts == split_dash(dp)
    IN  mktime(int_of(parts[1]), int_of(parts[2]), int_of(parts[3]))

\* cutoff_timestamp
cutoff_timestamp(current_timestamp) ==
    current_timestamp - (LOG_RETENTION_DAYS * SecondsPerDay)

\* "if file_timestamp < cutoff_timestamp"
file_is_old(ts, cutoff) == ts < cutoff

\* the body of the for loop for one name of the listing: what it does to the
\* file ("skip": not a log file or not date shaped, "raise": the per-file
\* except caught an error, "keep", "remove"); locked are the names of which
\* os.remove raises
cleanup_one(filename, current_timestamp, locked) ==
    LET dp == date_part(filename)
    IN  IF ~is_log_file(filename) THEN "skip"
        ELSE IF ~date_shaped(dp) THEN "skip"
        ELSE IF date_raises(dp) THEN "raise"
        ELSE IF ~file_is_old(file_timestamp(dp), cutoff_timestamp(current_timestamp))
        THEN "keep"
        ELSE IF filename \in locked THEN "raise"
        ELSE "remove"

\* the directory after the loop over the listing
cleanup_listing(files, current_timestamp, locked) ==
    {f \in files : cleanup_one(f, current_timestamp, locked) # "remove"}

-----------------------------------------------------------------------------
(* log_sensor_data called again and again on a mounted card.  sd_card.files is
   the directory: a function from the names in it to what ujson.load would
   find in the file (ok = it parses, entries = the array).  An entry is
   represented by the number of the call that made it. *)

\* the day on which the model starts: 2024-03-28, 28 days after 2024-02-29
StartDay == days_from_civil(2024, 3, 28)

\* calls of log_sensor_data in one run
MaxLogCalls == 3

\* time between two calls: half the logging interval, the logging interval,
\* the cleanup interval
LogDeltas == {LOG_INTERVAL \div 2, LOG_INTERVAL, CLEANUP_INTERVAL}

\* tick counter and wall clock before the first call: one logging interval
\* before midnight of the start day with the first cleanup falling due at
\* midnight, or noon of the start day soon after boot
LogStarts == {[ticks |-> CLEANUP_INTERVAL - LOG_INTERVAL,
               time |-> StartDay * SecondsPerDay - LOG_INTERVAL \div 1000],
              [ticks |-> 0, time |-> StartDay * SecondsPerDay + SecondsPerDay \div 2]}

\* what the card holds before the run.  kind and day say what each name is:
\* a day file written on day `day` ("log"), a name of the same shape whose day
\* of the month runs over into that day ("carried"), a name of the right shape
\* with a letter in the date ("unparsable"), any other name ("other")
DayName(day) == log_filename(get_date_string(day * SecondsPerDay))
LetterName == log_filename(<<"2", "0", "2", "4", "-", "0", "x", "-", "0", "1">>)

CardListing ==
    {[name |-> DayName(StartDay - 29), kind |-> "log", day |-> StartDay - 29],
     [name |-> DayName(StartDay - 28), kind |-> "log", day |-> StartDay - 28],
     [name |-> DayName(StartDay - 27), kind |-> "log", day |-> StartDay - 27],
     [name |-> log_filename(<<"2", "0", "2", "4", "-", "0", "1", "-", "6", "0">>),
      kind |-> "carried", day |-> StartDay - 28],
     [name |-> LetterName, kind |-> "unparsable", day |-> 0],
     [name |-> log_filename(<<>>), kind |-> "other", day |-> 0],
     [name |-> van_log_ \o <<"2", "0", "2", "4", "-", "0", "1", "-", "0", "1">>
                 \o <<".", "t", "x", "t">>,
      kind |-> "other", day |-> 0],
     [name |-> <<"a">> \o dot_json, kind |-> "other", day |-> 0]}

CardNames == {e.name : e \in CardListing}

\* a file as ujson.load finds it
Parsed(entries) == [ok |-> TRUE, entries |-> entries]
\* a file truncated by open(..., 'w') whose dump did not complete
Truncated == [ok |-> FALSE, entries |-> <<>>]

\* how the card behaves during one call: every operation succeeds; reading
\* the existing day file raises; open(..., 'w') raises; the file is opened
\* for writing and ujson.dump raises; os.listdir raises
LogEnv == {"ok", "read_fail", "open_fail", "write_fail", "listing_fail"}

\* the same for the gates and timestamps of log_sensor_data
sd_outcome(env) ==
    CASE env \in {"ok", "read_fail"} -> "ok"
      [] env \in {"open_fail", "write_fail"} -> "fail"
      [] env = "listing_fail" -> "listing_fail"

\* the names of which os.remove may raise
Lockable == {{}, {DayName(StartDay - 29)}}

\* "logs = ujson.load(f)" under the bare except: the array of the file, or
\* [] when the file is absent, does not parse, or the read raises
logs_read(files, filename, env) ==
    IF filename \in DOMAIN files /\ files[filename].ok /\ env # "read_fail"
    THEN files[filename].entries
    ELSE <<>>

\* the directory after "with open(log_filename, 'w') as f: ujson.dump(logs, f)"
logs_written(files, filename, logs, env) ==
    LET names == DOMAIN files \cup {filename}
    IN  CASE env = "open_fail" -> files
          [] env = "write_fail" ->
               [f \in names |-> IF f = filename THEN Truncated ELSE files[f]]
          [] OTHER ->
               [f \in names |-> IF f = filename THEN Parsed(logs) ELSE files[f]]

LogInit ==
    /\ steps = 0
    /\ gps_poll = GpsIdle
    /\ probe = ProbeIdle
    /\ \E st \in LogStarts :
         /\ Boot(st.ticks)
         /\ sd_card = [pc |-> "mounted", time |-> st.time,
                       files |-> [f \in CardNames |-> Parsed(<<>>)],
                       appended |-> [name |-> <<>>, entries |-> <<>>],
                       n |-> 0,
                       last |-> [env |-> "none", logged |-> FALSE,
                                 cleanup |-> "none", locked |-> {}]]

\* a call before the logging interval has passed returns at once
LogWait ==
    /\ sd_card.pc = "mounted"
    /\ sd_card.n < MaxLogCalls
    /\ \E d \in LogDeltas :
         LET t == ticks_add(now, d)
         IN  /\ ~log_due(t)
             /\ now' = t
             /\ sd_card' = [sd_card EXCEPT !.time = @ + d \div 1000,
                                           !.n = @ + 1,
                                           !.last = [env |-> "none", logged |-> FALSE,
                                                     cleanup |-> "none", locked |-> {}]]
    /\ UNCHANGED <<loop_vars, gps_poll, probe>>

\* a call with the logging interval passed: read, append, rewrite, then the
\* cleanup check
LogWriteWith(d, env, locked) ==
    LET t        == ticks_add(now, d)
        r        == log_sensor_data(t, sd_outcome(env))
        time     == sd_card.time + d \div 1000
        filename == log_filename(get_date_string(time))
        entry    == sd_card.n + 1
        logs     == Append(logs_read(sd_card.files, filename, env), entry)
        written  == logs_written(sd_card.files, filename, logs, env)
        listed   == r.cleanup /\ env # "listing_fail"
        kept     == cleanup_listing(DOMAIN written, time, locked)
    IN  /\ log_due(t)
        /\ now' = t
        /\ last_log_time' = r.last_log_time
        /\ last_cleanup_time' = r.last_cleanup_time
        /\ sd_card' =
             [sd_card EXCEPT
                !.time = time,
                !.n = entry,
                !.files = IF listed THEN [f \in kept |-> written[f]] ELSE written,
                !.appended =
                    IF ~r.log_ok THEN @
                    ELSE IF @.name = filename
                         THEN [@ EXCEPT !.entries = Append(@, entry)]
                         ELSE [name |-> filename, entries |-> <<entry>>],
                !.last = [env |-> env, logged |-> r.log_ok,
                          cleanup |-> IF ~r.cleanup THEN "none"
                                      ELSE IF listed THEN "ran" ELSE "listing_fail",
                          locked |-> IF listed THEN locked ELSE {}]]
        /\ UNCHANGED <<pc, sensor_data, engine_off_time, last_wifi_attempt,
                       is_shutting_down, calls, hist, steps, gps_poll, probe>>

LogWrite ==
    /\ sd_card.pc = "mounted"
    /\ sd_card.n < MaxLogCalls
    /\ \E d \in LogDeltas :
         \E env \in (IF cleanup_due(ticks_add(now, d)) THEN LogEnv
                     ELSE LogEnv \ {"listing_fail"}) :
           \E locked \in (IF cleanup_due(ticks_add(now, d))
                             /\ env \notin {"open_fail", "write_fail", "listing_fail"}
                          THEN Lockable ELSE {{}}) :
             LogWriteWith(d, env, locked)

LogNext ==
    \/ LogWait
    \/ LogWrite

LogSpec == LogInit /\ [][LogNext]_vars

-----------------------------------------------------------------------------
(* is_close_to_home applied to one fix after another, for a home position read
   from local_secrets.  Positions are on the foot grid of HOME_LAT/HOME_LON and
   lie on the home meridian. *)

\* home positions: the fallback one, one 1000 ft north of the equator, one on
\* the prime meridian
Homes == {<<HOME_LAT, HOME_LON>>, <<1000, HOME_LON>>, <<HOME_LAT, 0>>}

\* the dictionaries handed to is_close_to_home for a home h (the first one
\* before the receiver has a fix): valid or not,
\* latitude and longitude absent or present, latitude 0, at home, on the
\* radius, one foot beyond it
HomeFixes(h) ==
    {[gps_fix_valid |-> v, latitude |-> lat, longitude |-> lon, satellites |-> 7] :
        v \in BOOLEAN,
        lat \in {None, 0, h[1], h[1] + HOME_RADIUS_FT, h[1] + HOME_RADIUS_FT + 1},
        lon \in {None, h[2]}}

HomeInit ==
    /\ steps = 0
    /\ gps_poll = GpsIdle
    /\ sd_card = SdIdle
    /\ Boot(SENSOR_UPDATE_INTERVAL)
    /\ \E h \in Homes : \E g \in {f \in HomeFixes(h) : ~f.gps_fix_valid} :
         probe = [fn |-> "is_close_to_home", pc |-> "called", home |-> h,
                  gps_data |-> g, result |-> FALSE]

\* the call returns
HomeReturn ==
    /\ probe.pc = "called"
    /\ probe' = [probe EXCEPT !.pc = "returned",
                              !.result = is_close_to_home_of(probe.gps_data,
                                                             probe.home[1], probe.home[2])]
    /\ UNCHANGED <<now, loop_vars, gps_poll, sd_card>>

\* the next call, with the next fix
HomeCall ==
    /\ probe.pc = "returned"
    /\ \E g \in HomeFixes(probe.home) :
         probe' = [probe EXCEPT !.pc = "called", !.gps_data = g, !.result = FALSE]
    /\ UNCHANGED <<now, loop_vars, gps_poll, sd_card>>

HomeNext ==
    \/ HomeReturn
    \/ HomeCall

HomeSpec == HomeInit /\ [][HomeNext]_vars

-----------------------------------------------------------------------------
(* main: init_sd_card, then the loop.  probe holds main's local sd_available
   and the card as init_sd_card found it. *)

\* the card at start-up: mounted and writable; SDCard() or os.mount raises
\* (nothing is mounted at SD_MOUNT_PATH); mounted but the test write raises
CardEnv == {"mounted", "no_card", "read_only"}

\* init_sd_card: True when mount, test write and remove all succeed, False
\* when any of them raises
init_sd_card(card) == card = "mounted"

\* how the card answers log_sensor_data afterwards: on a card that is not
\* mounted or not writable, open(log_filename, 'w') raises
CardSdEnv(card) == IF card = "mounted" THEN {"ok", "fail"} ELSE {"fail"}

\* main before init_sd_card; ftp and display are the server and the last
\* message of the shutdown sequence, once it has run
MainStarted == [fn |-> "main", pc |-> "init_sd_card", card |-> "unknown",
                sd_available |-> FALSE, ftp |-> "none", display |-> "none"]

\* the fixes of the refreshes of main: none, one on the home radius
MainGpsReads == {NoFix, Fix(HOME_LAT + HOME_RADIUS_FT, HOME_LON, 7)}

MainInit ==
    /\ steps = 0
    /\ gps_poll = GpsIdle
    /\ sd_card = SdIdle
    /\ probe = MainStarted
    /\ \E t \in BootTicks : Boot(t)

\* "sd_available = init_sd_card()"
MainInitSd ==
    /\ probe.fn = "main"
    /\ probe.pc = "init_sd_card"
    /\ \E card \in CardEnv :
         probe' = [probe EXCEPT !.pc = "loop", !.card = card,
                                !.sd_available = init_sd_card(card)]
    /\ UNCHANGED <<now, loop_vars, gps_poll, sd_card>>

MainSkip ==
    /\ probe.pc = "loop"
    /\ pc = "run"
    /\ steps < MaxSteps
    /\ ~sensor_due(now)
    /\ \E d \in Deltas : SkipWith(d)
    /\ steps' = steps + 1
    /\ UNCHANGED unit_vars

MainRefresh ==
    /\ probe.pc = "loop"
    /\ pc = "run"
    /\ steps < MaxSteps
    /\ sensor_due(now)
    /\ \E eng \in BOOLEAN, batt \in BatteryReads, fix \in MainGpsReads, d \in Deltas :
         \E sd \in (IF log_due(now) THEN CardSdEnv(probe.card) ELSE {"ok"}) :
           RefreshWith(d, eng, batt, fix, [fails |-> 1, raises |-> FALSE], sd)
    /\ steps' = steps + 1
    /\ UNCHANGED unit_vars

MainShutdown ==
    /\ probe.pc = "loop"
    /\ pc = "run"
    /\ steps < MaxSteps
    /\ sensor_due(now)
    /\ \E eng \in BOOLEAN, w \in LinkEnv, u \in FtpEnv, d \in Deltas :
         /\ ShutdownWith(d, eng, w, u)
         /\ LET h == handle_shutdown_sequence(sensor_data.gps, w, u)
            IN  probe' = [probe EXCEPT !.ftp = h.ftp, !.display = h.display]
    /\ steps' = steps + 1
    /\ UNCHANGED <<gps_poll, sd_card>>

\* wake from deep sleep: main starts again
MainWake ==
    /\ probe.pc = "loop"
    /\ pc = "asleep"
    /\ \E t \in BootTicks : WakeAt(t)
    /\ steps' = 0
    /\ probe' = MainStarted
    /\ UNCHANGED <<gps_poll, sd_card>>

MainNext ==
    \/ MainInitSd
    \/ MainSkip
    \/ MainRefresh
    \/ MainShutdown
    \/ MainWake

MainSpec == MainInit /\ [][MainNext]_vars

-----------------------------------------------------------------------------
(* read_battery_status applied to one reading of the power chip after
   another.  Voltages are in millivolts; probe keeps the previous reading and
   its answer beside the current one. *)

\* battery voltages the chip reports: the ends of the 16-bit range, both ends
\* of the percentage scale and their neighbours, the steps between two
\* percentages, a value whose low byte is larger than its high byte
BatteryMillivolts == {0, 1, 255, 2999, 3000, 3001, 3011, 3012, 3599, 3600, 4187, 4188,
                      4199, 4200, 4201, 4352, 65535}

\* register 0x01, of which the low three bits are the charge state
ChargeStatusReads == {4, 15}

\* which register read raises, if any
BatteryFaults == {"none", "pmu_status", "charge_status", "bat_v"}

\* i2c.readfrom_mem(AXP2101_ADDR, 0x34, 2): two bytes, high byte first
bat_v_raw(mv) == <<mv \div 256, mv % 256>>

\* struct.unpack(">H", bat_v_raw)[0]
unpack_big_endian(bytes) == bytes[1] * 256 + bytes[2]

\* int(x) of Python for x = num / den with den > 0: truncation towards zero
int_trunc(num, den) == IF num >= 0 THEN num \div den ELSE -((-num) \div den)

\* variant: the percentage without its clamp
voltage_percentage_unclamped(raw) == int_trunc((raw - 3000) * 100, 1200)

\* max(0, min(100, int((bat_voltage - 3.0) / 1.2 * 100))) with
\* bat_voltage = raw * 0.001
voltage_percentage(raw) ==
    LET p == int_trunc((raw - 3000) * 100, 1200)
        m == IF p < 100 THEN p ELSE 100
    IN  IF m > 0 THEN m ELSE 0

\* charge_states.get(charge_status & 0x07, "unknown")
charge_state(charge_status) ==
    LET k == charge_status % 8
    IN  CASE k = 0 -> "trickle" [] k = 1 -> "pre-charge" [] k = 2 -> "const-current"
          [] k = 3 -> "const-voltage" [] k = 4 -> "done" [] k = 5 -> "not-charging"
          [] OTHER -> "unknown"

\* the None that read_battery_status returns from its except clause
BatteryNone == [is_none |-> TRUE, percentage |-> None, voltage |-> None,
                charging |-> "none", raised |-> FALSE]

\* the body of read_battery_status's try block with the voltage register
\* holding bytes and the read named by fault raising
read_battery_status_try(bytes, charge_status, fault) ==
    IF fault # "none" THEN [BatteryNone EXCEPT !.raised = TRUE]
    ELSE LET raw == unpack_big_endian(bytes)
         IN  [is_none |-> FALSE, percentage |-> voltage_percentage(raw),
              voltage |-> raw, charging |-> charge_state(charge_status),
              raised |-> FALSE]

\* read_battery_status: "except Exception: return None"
read_battery_status(bytes, charge_status, fault) ==
    LET r == read_battery_status_try(bytes, charge_status, fault)
    IN  IF r.raised THEN BatteryNone ELSE r

BatteryInit ==
    /\ steps = 0
    /\ gps_poll = GpsIdle
    /\ sd_card = SdIdle
    /\ Boot(SENSOR_UPDATE_INTERVAL)
    /\ probe = [fn |-> "read_battery_status", pc |-> "idle", mv |-> 0,
                fault |-> "none", result |-> BatteryNone,
                prev_mv |-> None, prev_percentage |-> None]

\* update_sensors: sensor_data["battery"] = read_battery_status()
BatteryRead ==
    /\ probe.fn = "read_battery_status"
    /\ \E mv \in BatteryMillivolts, cs \in ChargeStatusReads, fault \in BatteryFaults :
         LET r == read_battery_status(bat_v_raw(mv), cs, fault)
         IN  probe' = [probe EXCEPT
                         !.pc = "returned", !.mv = mv, !.fault = fault, !.result = r,
                         !.prev_mv = IF probe.pc = "returned" /\ ~probe.result.is_none
                                     THEN probe.mv ELSE @,
                         !.prev_percentage =
                             IF probe.pc = "returned" /\ ~probe.result.is_none
                             THEN probe.result.percentage ELSE @]
    /\ UNCHANGED <<now, loop_vars, gps_poll, sd_card>>

BatteryNext == BatteryRead

BatterySpec == BatteryInit /\ [][BatteryNext]_vars

-----------------------------------------------------------------------------
(* The loop with the engine sample taken from the power chip's status
   register.  probe holds the last read and the tick of the first failed read
   of a run of failed reads that followed a present sample. *)

\* what i2c.readfrom_mem(AXP2101_ADDR, 0x00, 1) gives: VBUS present alone,
\* all bits, no bit, all bits but VBUS; or it raises
EngineReads == {[status |-> 32, raises |-> FALSE], [status |-> 255, raises |-> FALSE],
                [status |-> 0, raises |-> FALSE], [status |-> 223, raises |-> FALSE],
                [status |-> 0, raises |-> TRUE]}

\* engine_is_on: bool(status[0] & 0x20), False when the read raises
engine_is_on(read) ==
    IF read.raises THEN FALSE ELSE (read.status \div 32) % 2 = 1

EngineProbe(read, failed_at) ==
    [fn |-> "engine_is_on", read |-> read, failed_at |-> failed_at]

\* the tick of the first failed read of the current run of failures
next_failed_at(read, prev) ==
    IF ~read.raises THEN None
    ELSE IF prev THEN now
    ELSE probe.failed_at

EngineInit ==
    /\ steps = 0
    /\ gps_poll = GpsIdle
    /\ sd_card = SdIdle
    /\ probe = EngineProbe([status |-> 0, raises |-> FALSE], None)
    /\ \E t \in BootTicks : Boot(t)

EngineSkip ==
    /\ pc = "run"
    /\ steps < MaxSteps
    /\ ~sensor_due(now)
    /\ \E d \in Deltas : SkipWith(d)
    /\ steps' = steps + 1
    /\ UNCHANGED unit_vars

EngineRefresh ==
    /\ pc = "run"
    /\ steps < MaxSteps
    /\ sensor_due(now)
    /\ \E read \in EngineReads, batt \in BatteryReads, d \in Deltas :
         /\ RefreshWith(d, engine_is_on(read), batt, NoFix,
                        [fails |-> 1, raises |-> FALSE], "fail")
         /\ probe' = EngineProbe(read, next_failed_at(read, sensor_data.engine))
    /\ steps' = steps + 1
    /\ UNCHANGED <<gps_poll, sd_card>>

EngineShutdown ==
    /\ pc = "run"
    /\ steps < MaxSteps
    /\ sensor_due(now)
    /\ \E read \in EngineReads, d \in Deltas :
         /\ ShutdownWith(d, engine_is_on(read), [fails |-> 1, raises |-> FALSE], "error")
         /\ probe' = EngineProbe(read, next_failed_at(read, sensor_data.engine))
    /\ steps' = steps + 1
    /\ UNCHANGED <<gps_poll, sd_card>>

EngineWake ==
    /\ pc = "asleep"
    /\ \E t \in BootTicks : WakeAt(t)
    /\ steps' = 0
    /\ probe' = EngineProbe([status |-> 0, raises |-> FALSE], None)
    /\ UNCHANGED <<gps_poll, sd_card>>

EngineNext ==
    \/ EngineSkip
    \/ EngineRefresh
    \/ EngineShutdown
    \/ EngineWake

EngineSpec == EngineInit /\ [][EngineNext]_vars

-----------------------------------------------------------------------------
(* Properties *)

\* a fix that is valid and lies within the home radius
WithinHomeRadius(g) ==
    /\ g.gps_fix_valid
    /\ g.latitude # None
    /\ g.longitude # None
    /\ Abs(g.latitude - HOME_LAT) + Abs(g.longitude - HOME_LON) <= HOME_RADIUS_FT

\* C1: the shutdown sequence is started only at a refresh that samples the
\* engine absent, and only when more than SHUTDOWN_DELAY has elapsed since the
\* present->absent sample, with every sample since then absent.
C1_ShutdownSafety ==
    calls.kind = "shutdown" =>
        /\ ~sensor_data.engine
        /\ hist.off_at # None
        /\ hist.absent_ms # None
        /\ hist.absent_ms > SHUTDOWN_DELAY
        /\ engine_off_time = hist.off_at

W_C1 ==
    /\ calls.kind = "shutdown"
    /\ ~sensor_data.engine
    /\ hist.absent_ms > SHUTDOWN_DELAY

\* C2: once the engine was sampled present and then absent at tick t0 and has
\* stayed absent, no refresh with ticks_diff(now, t0) > SHUTDOWN_DELAY completes
\* as an ordinary refresh: it starts the shutdown sequence (for every t0, 0
\* included).
CE_C2_ShutdownTrigger ==
    (calls.kind = "refresh" /\ ~sensor_data.engine /\ hist.off_at # None) =>
        ticks_diff(sensor_data.last_update, hist.off_at) <= SHUTDOWN_DELAY

\* C3: a present sample discards the timer and returns to EngineOn; the next
\* present->absent sample starts a new timer at its own tick; a shutdown is
\* started only on the timer of the most recent present->absent sample, more
\* than SHUTDOWN_DELAY old.
C3_BlipRecovery ==
    [][/\ (calls'.kind = "refresh" /\ sensor_data'.engine) =>
            (engine_off_time' = None /\ hist'.absent_ms = None)
       /\ (calls'.kind = "refresh" /\ sensor_data.engine /\ ~sensor_data'.engine) =>
            engine_off_time' = now
       /\ (pc = "run" /\ sensor_data.engine /\ ~sensor_data'.engine) =>
            calls'.kind = "refresh"
       /\ calls'.kind = "shutdown" =>
            /\ engine_off_time' = hist'.off_at
            /\ ticks_diff(now, hist'.off_at) > SHUTDOWN_DELAY
      ]_vars

\* a new timer runs after an earlier one was discarded
W_C3 ==
    /\ hist.discarded
    /\ ~sensor_data.engine
    /\ engine_off_time # None
    /\ engine_off_time = sensor_data.last_update

\* C4: from every reachable state, a fresh boot or a wake with the engine
\* already absent included, if no later refresh samples the engine present and
\* the loop keeps iterating, the shutdown sequence is eventually started: always
\* eventually a refresh samples the engine present or the shutdown starts.
CE_C4_BoundedAwake ==
    []<>((calls.kind = "refresh" /\ sensor_data.engine) \/ calls.kind = "shutdown")

\* C5: in one wake cycle the shutdown sequence is started exactly once when the
\* engine stays absent past the threshold: never twice, it ends in deep sleep,
\* and a refresh past the threshold does not leave it unstarted.
CE_C5_OneShot ==
    /\ hist.shutdowns <= 1
    /\ hist.shutdowns = 1 => (pc = "asleep" /\ calls.sleep)
    /\ (/\ calls.kind = "refresh"
        /\ ~sensor_data.engine
        /\ hist.absent_ms # None
        /\ hist.off_at # None
        /\ ticks_diff(sensor_data.last_update, hist.off_at) > SHUTDOWN_DELAY)
       => hist.shutdowns = 1

\* the half of C5 that does not depend on the timer being started: at most one
\* shutdown sequence per wake cycle, and a started one ends in deep sleep
C5_AtMostOnce ==
    /\ hist.shutdowns <= 1
    /\ (hist.shutdowns = 1) = (pc = "asleep")
    /\ is_shutting_down = (hist.shutdowns = 1)
    /\ pc = "asleep" => (calls.kind = "shutdown" /\ calls.sleep)

\* C6: whatever the proximity, the Wi-Fi association and the upload do, the
\* shutdown sequence raises nothing and reaches enter_deep_sleep.
C6_ShutdownCompletes ==
    /\ pc # "crashed"
    /\ calls.kind = "shutdown" => (~calls.raised /\ calls.sleep /\ pc = "asleep")

\* a shutdown whose upload failed inside upload_files_ftp
W_C6 ==
    /\ calls.kind = "shutdown"
    /\ calls.upload
    /\ ~calls.upload_ret
    /\ pc = "asleep"

\* C7: during shutdown check_wifi is called only on a valid fix within the home
\* radius, and upload_files_ftp only after that association succeeded.
C7_ShutdownGatedByProximity ==
    calls.kind = "shutdown" =>
        /\ calls.wifi => WithinHomeRadius(sensor_data.gps)
        /\ calls.upload => (calls.wifi /\ calls.wifi_ret)
        /\ ~WithinHomeRadius(sensor_data.gps) => (~calls.wifi /\ ~calls.connect /\ ~calls.upload)

\* a shutdown away from home on a valid fix: straight to sleep
W_C7 ==
    /\ calls.kind = "shutdown"
    /\ sensor_data.gps.gps_fix_valid
    /\ ~WithinHomeRadius(sensor_data.gps)
    /\ ~calls.wifi
    /\ calls.sleep

\* C8: an iteration on which less than SENSOR_UPDATE_INTERVAL has elapsed since
\* last_update changes no field of the snapshot and no timer, and invokes nothing.
C8_SkipIsNoOp ==
    [][(pc = "run" /\ ticks_diff(now, sensor_data.last_update) < SENSOR_UPDATE_INTERVAL) =>
         /\ UNCHANGED <<sensor_data, engine_off_time, last_wifi_attempt, last_log_time,
                        last_cleanup_time, is_shutting_down, pc>>
         /\ calls' = [NoCalls EXCEPT !.kind = "noop"]
      ]_vars

\* a skipped iteration with a snapshot and a running timer to preserve
W_C8 ==
    /\ calls.kind = "noop"
    /\ sensor_data.last_update # 0
    /\ sensor_data.gps.gps_fix_valid
    /\ engine_off_time # None

C10_WifiRetryGate ==
    [][calls'.kind = "refresh" =>
         /\ calls'.wifi = (/\ WithinHomeRadius(sensor_data'.gps)
                           /\ ticks_diff(now, last_wifi_attempt) > WIFI_RETRY_INTERVAL)
         /\ calls'.connect => (calls'.wifi /\ ~calls'.link_up)
         /\ (calls'.wifi /\ hist.wifi_gap # None) => hist.wifi_gap > WIFI_RETRY_INTERVAL
         /\ last_wifi_attempt' = IF calls'.wifi THEN now ELSE last_wifi_attempt
      ]_vars

\* an attempt made with the engine sampled absent that issued a connect
W_C10 ==
    /\ calls.kind = "refresh"
    /\ calls.wifi
    /\ calls.connect
    /\ ~sensor_data.engine
    /\ last_wifi_attempt = sensor_data.last_update

\* C11: every interval gate decides on the signed difference ticks_diff(now,
\* stored) alone, never on the raw value of the stored timestamp: an iteration
\* is skipped exactly while diff(now, last_update) < SENSOR_UPDATE_INTERVAL, the
\* Wi-Fi attempt is made exactly when the fix is close and diff(now,
\* last_wifi_attempt) > WIFI_RETRY_INTERVAL, the append exactly when diff(now,
\* last_log_time) >= LOG_INTERVAL, the cleanup after an append exactly when
\* diff(now, last_cleanup_time) >= CLEANUP_INTERVAL, and with the timer started
\* at hist.off_at and the engine still absent the shutdown starts exactly when
\* diff(now, hist.off_at) > SHUTDOWN_DELAY, whatever tick hist.off_at is.
CE_C11_WrapSafeGates ==
    [][pc = "run" =>
         /\ (calls'.kind = "noop") =
                (ticks_diff(now, sensor_data.last_update) < SENSOR_UPDATE_INTERVAL)
         /\ calls'.kind = "refresh" =>
              /\ calls'.wifi = (/\ WithinHomeRadius(sensor_data'.gps)
                                /\ ticks_diff(now, last_wifi_attempt) > WIFI_RETRY_INTERVAL)
              /\ calls'.log = ~(ticks_diff(now, last_log_time) < LOG_INTERVAL)
              /\ calls'.log_ok =>
                   calls'.cleanup = ~(ticks_diff(now, last_cleanup_time) < CLEANUP_INTERVAL)
         /\ (/\ calls'.kind \in {"refresh", "shutdown"}
             /\ ~sensor_data.engine
             /\ ~sensor_data'.engine
             /\ hist.off_at # None) =>
              (calls'.kind = "shutdown") = (ticks_diff(now, hist.off_at) > SHUTDOWN_DELAY)
      ]_vars

\* the poll has handed its result back
GpsReturned == gps_poll.pc \in {"returned", "stored"}

\* the dictionary carries none of the optional position fields
NoPositionFields(g) ==
    g.latitude = None /\ g.longitude = None /\ g.speed = None /\ g.time = NoTime

\* C12: when the transport did not fail, the returned fix is valid exactly when
\* an RMC sentence was accepted in this window, whether or not a satellite count
\* was obtained; a valid fix implies that an active RMC with numeric coordinates
\* was delivered in the window (a status-V sentence never makes it valid); a fix
\* that is not valid carries no latitude, longitude, speed or time.
C12_FixValidity ==
    /\ gps_poll.gps_data.gps_fix_valid = gps_poll.gprmc_found
    /\ gps_poll.gps_data.gps_fix_valid => gps_poll.seen_active
    /\ ~gps_poll.gps_data.gps_fix_valid => NoPositionFields(gps_poll.gps_data)
    /\ GpsReturned =>
         /\ gps_poll.last # "raise" => gps_poll.result = gps_poll.gps_data
         /\ ~gps_poll.result.gps_fix_valid => NoPositionFields(gps_poll.result)

\* a valid fix returned at the timeout without any satellite count
W_C12 ==
    /\ gps_poll.pc = "returned"
    /\ gps_poll.result.gps_fix_valid
    /\ ~gps_poll.gpgga_found
    /\ gps_poll.last = "timeout"

\* C13: a returned fix is either not valid or carries a satellite count that
\* was extracted from a GGA sentence of the same window.
CE_C13_AllOrNothing ==
    (GpsReturned /\ gps_poll.result.gps_fix_valid) => gps_poll.gpgga_found

\* the lines C14 names as rejected
RejectedLines == {"NoDollar", "garbled", "VoidRmc", "BadLatRmc", "BadSpeedRmc",
                  "ShortLatRmc", "EmptyLonRmc", "EmptySatsGga", "BadSatsGga"}

\* C14: a pass over a rejected line leaves every field of the accumulated fix
\* and both flags unchanged and stays in the loop; any pass either leaves the
\* five RMC fields unchanged or sets all of them.
C14_RejectedLineNoEffect ==
    [][(gps_poll.pc = "loop" /\ gps_poll'.last \in LineNames) =>
         /\ gps_poll'.last \in RejectedLines =>
              /\ gps_poll'.gps_data = gps_poll.gps_data
              /\ gps_poll'.gprmc_found = gps_poll.gprmc_found
              /\ gps_poll'.gpgga_found = gps_poll.gpgga_found
              /\ gps_poll'.pc = "loop"
              /\ gps_poll'.start_time = gps_poll.start_time
         /\ LET g == gps_poll.gps_data
                h == gps_poll'.gps_data
            IN  \/ /\ h.gps_fix_valid = g.gps_fix_valid
                   /\ h.latitude = g.latitude
                   /\ h.longitude = g.longitude
                   /\ h.speed = g.speed
                   /\ h.time = g.time
                \/ /\ h.gps_fix_valid
                   /\ h.latitude # None
                   /\ h.longitude # None
                   /\ h.speed # None
                   /\ h.time # NoTime
      ]_vars

\* an accumulated fix survived an RMC sentence whose speed does not parse
W_C14 ==
    /\ gps_poll.pc = "loop"
    /\ gps_poll.last = "BadSpeedRmc"
    /\ gps_poll.gps_data.gps_fix_valid
    /\ gps_poll.gps_data.latitude = -33758333

\* C15: once the reference sentence has been delivered the accumulated fix is
\* valid, with latitude 48.1173, longitude 11.5167 (to four decimals), time
\* "12:35:19" and a non-zero speed.
CE_C15_ReferenceSentence ==
    (gps_poll.pc = "loop" /\ gps_poll.last = "RefRmc") =>
        /\ gps_poll.gps_data.gps_fix_valid
        /\ Abs(gps_poll.gps_data.latitude - 48117300) <= 100
        /\ Abs(gps_poll.gps_data.longitude - 11516700) <= 100
        /\ gps_poll.gps_data.time = <<"1", "2", ":", "3", "5", ":", "1", "9">>
        /\ gps_poll.gps_data.speed > 0

\* C16: read_gps returns: a pass of the loop is made only while the signed
\* elapsed time is below the timeout, the loop is never in progress with both
\* an RMC fix and a GGA count in hand, and every poll in progress returns.
C16_ReadGpsTerminates ==
    /\ [][(gps_poll.pc = "loop" /\ gps_poll'.last \in LineNames \cup {"nothing", "raise"}
           /\ gps_poll' # gps_poll) =>
             ticks_diff(now, gps_poll.start_time) < gps_timeout]_vars
    /\ [][(gps_poll.pc = "loop" /\ ~(ticks_diff(now, gps_poll.start_time) < gps_timeout)) =>
             (gps_poll'.pc = "returned" /\ gps_poll'.result = gps_poll.gps_data)]_vars
    /\ [](gps_poll.pc = "loop" => ~(gps_poll.gprmc_found /\ gps_poll.gpgga_found))
    /\ ((gps_poll.pc = "loop") ~> (gps_poll.pc = "returned"))

\* a window that straddles the wrap of the counter ran into its timeout while
\* sentences of one family kept arriving
W_C16 ==
    /\ gps_poll.pc = "returned"
    /\ gps_poll.last = "timeout"
    /\ gps_poll.gprmc_found
    /\ gps_poll.start_time = TICKS_PERIOD - 1500
    /\ now = 1500

\* C17: when the transport raises, read_gps returns the error dictionary (not
\* valid, no position, tagged) and the refresh stores it and goes on.
C17_DecoderNeverRaises ==
    /\ gps_poll.pc \in {"loop", "returned", "stored"}
    /\ gps_poll.last = "raise" =>
         /\ GpsReturned
         /\ ~gps_poll.result.gps_fix_valid
         /\ gps_poll.result.error
         /\ NoPositionFields(gps_poll.result)
    /\ gps_poll.pc = "stored" => (pc = "run" /\ sensor_data.gps = gps_poll.result)

\* the transport raised after a fix had been accepted, and the refresh went on
W_C17 ==
    /\ gps_poll.last = "raise"
    /\ gps_poll.pc = "stored"
    /\ gps_poll.gprmc_found
    /\ sensor_data.gps.error

\* C18: is_close_to_home answers false for a fix that is not valid or lacks a
\* position field, and for a valid fix with both fields present (0 included)
\* it answers exactly distance_feet(fix, home) <= HOME_RADIUS_FT.
CE_C18_ProximityTest ==
    (probe.fn = "is_close_to_home" /\ probe.pc = "returned") =>
        LET g == probe.gps_data
        IN  IF ~g.gps_fix_valid \/ g.latitude = None \/ g.longitude = None
            THEN probe.result = FALSE
            ELSE probe.result =
                   (calculate_distance_feet(g.latitude, g.longitude,
                                            probe.home[1], probe.home[2])
                      <= HOME_RADIUS_FT)

\* the answers for a fix of which both coordinates are non-zero are the ones
\* C18 states
W_C18 ==
    /\ probe.fn = "is_close_to_home"
    /\ probe.pc = "returned"
    /\ probe.gps_data.gps_fix_valid
    /\ probe.gps_data.latitude = probe.home[1] + HOME_RADIUS_FT
    /\ probe.gps_data.longitude = HOME_LON
    /\ probe.result

\* C19: after a successful append the day file holds exactly the entries of
\* the successful appends of that day, in call order.
CE_C19_AppendPreservesHistory ==
    (sd_card.pc = "mounted" /\ sd_card.last.logged) =>
        LET a == sd_card.appended
        IN  /\ a.name \in DOMAIN sd_card.files
            /\ sd_card.files[a.name].ok
            /\ sd_card.files[a.name].entries = a.entries

\* two appends on one day with the card answering every operation: the file
\* holds both entries in call order
W_C19 ==
    /\ sd_card.pc = "mounted"
    /\ sd_card.last.logged
    /\ Len(sd_card.appended.entries) = 2
    /\ sd_card.files[sd_card.appended.name] = Parsed(sd_card.appended.entries)

\* a name of the card's listing is stale at wall-clock time t: it is a day
\* file whose day began more than 28 days before t
StaleAt(e, t) ==
    /\ e.kind = "log"
    /\ e.day * SecondsPerDay < t - LOG_RETENTION_DAYS * SecondsPerDay

\* what one call does to the names in scope: if the cleanup ran, exactly the
\* stale ones of which os.remove did not raise have gone; if it did not run,
\* none has; the contents of the ones that stay are left alone
CleanupRemovesStale(scope) ==
    LET before == DOMAIN sd_card.files
        after  == DOMAIN sd_card'.files
    IN  /\ sd_card'.last.cleanup # "ran" => before \subseteq after
        /\ sd_card'.last.cleanup = "ran" =>
             /\ \A e \in scope :
                  e.name \in before =>
                    (e.name \notin after <=>
                       (StaleAt(e, sd_card'.time) /\ e.name \notin sd_card'.last.locked))
             /\ \A f \in before \ CardNames : f \in after
        /\ \A e \in scope :
             e.name \in before \cap after => sd_card'.files[e.name] = sd_card.files[e.name]

\* C20: a call in which the cleanup ran removes from the directory exactly the
\* day files dated more than 28 days before now (of which os.remove did not
\* raise); no file with a newer date, another name or a date that is not one
\* is removed, and a call in which the cleanup did not run removes nothing.
CE_C20_RetentionCleanup ==
    [][sd_card.pc = "mounted" => CleanupRemovesStale(CardListing)]_vars

\* the part of C20 that holds: the same for every name but the one whose day
\* of the month runs over
C20_CalendarDates ==
    [][sd_card.pc = "mounted" =>
         CleanupRemovesStale({e \in CardListing : e.kind # "carried"})]_vars

\* the cleanup ran, os.remove raised for the oldest day file, the day file of
\* 28 days before the start was removed all the same, and the name with a
\* letter in its date is still there
W_C20 ==
    /\ sd_card.pc = "mounted"
    /\ sd_card.last.cleanup = "ran"
    /\ sd_card.last.locked = {DayName(StartDay - 29)}
    /\ DayName(StartDay - 29) \in DOMAIN sd_card.files
    /\ DayName(StartDay - 28) \notin DOMAIN sd_card.files
    /\ LetterName \in DOMAIN sd_card.files

\* C21: when the shutdown sequence called upload_files_ftp, it was told of
\* success only if the reply to PASS held 230; with a reply without 230 it was
\* told of failure and showed "Upload failed".
CE_C21_UploadSuccessDetection ==
    (probe.fn = "main" /\ calls.kind = "shutdown" /\ calls.upload
       /\ probe.ftp # "error") =>
        /\ calls.upload_ret => login_successful(PassReply(probe.ftp))
        /\ ~login_successful(PassReply(probe.ftp)) =>
             (~calls.upload_ret /\ probe.display = "Upload failed")

\* the upload of a shutdown sequence after a login the server accepted
W_C21 ==
    /\ probe.fn = "main"
    /\ calls.kind = "shutdown"
    /\ calls.upload
    /\ probe.ftp = "login_ok"
    /\ calls.upload_ret
    /\ probe.display = "Upload complete"

\* C22: after a failed mount main is in its loop, and no call of
\* update_sensors attempts a log append or a cleanup.
CE_C22_NoLoggingWithoutCard ==
    (probe.fn = "main" /\ probe.pc = "loop" /\ ~probe.sd_available) =>
        (~calls.log /\ ~calls.cleanup)

\* the loop runs after a failed mount: a refresh before the logging interval
\* has passed attempts no append
W_C22 ==
    /\ probe.fn = "main"
    /\ probe.pc = "loop"
    /\ probe.card = "no_card"
    /\ ~probe.sd_available
    /\ calls.kind = "refresh"
    /\ ~calls.log

\* C23: a reading that did not fail gives a percentage in 0..100, 0 up to
\* 3000 mV, 100 from 4200 mV, and not below the percentage of an earlier
\* reading of a voltage that was not higher; a reading of which a register
\* read failed gives None, and nothing is raised.
C23_BatteryPercentageBounded ==
    (probe.fn = "read_battery_status" /\ probe.pc = "returned") =>
        /\ ~probe.result.raised
        /\ probe.result.is_none = (probe.fault # "none")
        /\ ~probe.result.is_none =>
             /\ probe.result.percentage \in 0..100
             /\ probe.mv <= 3000 => probe.result.percentage = 0
             /\ probe.mv >= 4200 => probe.result.percentage = 100
             /\ (probe.prev_mv # None /\ probe.prev_mv <= probe.mv) =>
                  probe.prev_percentage <= probe.result.percentage
             /\ (probe.prev_mv # None /\ probe.prev_mv >= probe.mv) =>
                  probe.prev_percentage >= probe.result.percentage

\* the largest 16-bit reading after one a millivolt below the full mark
W_C23 ==
    /\ probe.fn = "read_battery_status"
    /\ probe.pc = "returned"
    /\ probe.mv = 65535
    /\ probe.result.percentage = 100
    /\ probe.prev_mv = 4199
    /\ probe.prev_percentage = 99

\* C24: the stored fix is the result of the poll just made; a poll in which
\* no active RMC sentence was delivered returns no position, speed or time and
\* is not valid, one in which no GGA count was accepted returns satellite
\* count 0, one in which nothing was accepted returns the initial dictionary,
\* whatever the poll before it returned; such a fix fails the proximity test.
C24_FreshFix ==
    /\ gps_poll.pc = "stored" => sensor_data.gps = gps_poll.result
    /\ (GpsReturned /\ gps_poll.last # "raise") =>
         /\ ~gps_poll.seen_active =>
              /\ ~gps_poll.result.gps_fix_valid
              /\ NoPositionFields(gps_poll.result)
              /\ ~is_close_to_home(gps_poll.result)
         /\ ~gps_poll.gpgga_found => gps_poll.result.satellites = 0
         /\ (~gps_poll.gprmc_found /\ ~gps_poll.gpgga_found) => gps_poll.result = GpsEmpty
    /\ (GpsReturned /\ gps_poll.last = "raise") => gps_poll.result = GpsError

\* the second poll ran out of time with nothing accepted while the snapshot
\* still holds the valid fix and the satellite count of the first
W_C24 ==
    /\ gps_poll.polls = 2
    /\ gps_poll.pc = "returned"
    /\ gps_poll.last = "timeout"
    /\ gps_poll.result = GpsEmpty
    /\ sensor_data.gps.gps_fix_valid
    /\ sensor_data.gps.satellites > 0

\* C25: a failed read of the status register is stored as engine absent and
\* raises nothing; after a present sample it starts the timer; and once the
\* reads have failed since tick t0, no refresh with ticks_diff(now, t0) >
\* SHUTDOWN_DELAY completes as an ordinary refresh: it starts the shutdown.
CE_C25_FailedReadIsAbsent ==
    (probe.fn = "engine_is_on" /\ probe.read.raises) =>
        /\ ~sensor_data.engine
        /\ ~calls.raised
        /\ (calls.kind = "refresh" /\ probe.failed_at # None) =>
             ticks_diff(sensor_data.last_update, probe.failed_at) <= SHUTDOWN_DELAY

\* the part of C25 that does not depend on the shutdown gate: a failed read is
\* stored as absent, raises nothing, and after a present sample completes as an
\* ordinary refresh that starts the timer at its own tick; a shutdown is
\* started by a failed read exactly when an absent sample would start it
C25_FailedReadStartsTimer ==
    [][(probe'.fn = "engine_is_on" /\ probe'.read.raises /\ pc = "run"
          /\ calls'.kind \in {"refresh", "shutdown"}) =>
         /\ ~sensor_data'.engine
         /\ ~calls'.raised
         /\ sensor_data.engine => (calls'.kind = "refresh" /\ engine_off_time' = now)
         /\ (calls'.kind = "shutdown") = shutdown_due(sensor_data.engine, FALSE, now)
      ]_vars

\* reads that failed for more than the delay after a present sample started
\* the shutdown sequence
W_C25 ==
    /\ probe.fn = "engine_is_on"
    /\ probe.read.raises
    /\ probe.failed_at # None
    /\ calls.kind = "shutdown"
    /\ pc = "asleep"

\* C26: the refresh that starts the shutdown sequence stores the absent engine
\* sample and nothing else: battery, gps, wifi and last_update of the snapshot
\* and the Wi-Fi, logging and cleanup timestamps are unchanged, no log append
\* or cleanup is made, and the shutdown sequence associates exactly when the
\* fix that was in the snapshot before the refresh is valid and within the
\* home radius.
C26_ShutdownRefreshFrame ==
    [][calls'.kind = "shutdown" =>
         /\ ~sensor_data'.engine
         /\ sensor_data'.battery = sensor_data.battery
         /\ sensor_data'.gps = sensor_data.gps
         /\ sensor_data'.wifi = sensor_data.wifi
         /\ sensor_data'.last_update = sensor_data.last_update
         /\ UNCHANGED <<last_wifi_attempt, last_log_time, last_cleanup_time, engine_off_time>>
         /\ ~calls'.log /\ ~calls'.log_ok /\ ~calls'.cleanup
         /\ calls'.wifi = WithinHomeRadius(sensor_data.gps)
      ]_vars

\* a shutdown within the home radius: the sequence associated on the stored
\* fix, and the snapshot still holds the battery reading and the link state
\* of the last completed refresh, which found the link down
W_C26 ==
    /\ calls.kind = "shutdown"
    /\ calls.wifi
    /\ calls.wifi_ret
    /\ ~sensor_data.wifi
    /\ sensor_data.battery = 75
    /\ WithinHomeRadius(sensor_data.gps)
    /\ sensor_data.last_update # 0

====
